---- MODULE Spec2Model ----
(***************************************************************************)
(* State-machine model of hygieia: the chat route (turns, conversation     *)
(* deletion), the profile and pantry routes, the store tables they read    *)
(* and write, the credential vault, and the chat page of the client (the   *)
(* useChat hook and the page's effect on the selection).                   *)
(*                                                                         *)
(* A JavaScript string is a sequence of one-character strings.  A request  *)
(* body is a record that holds a field only when the JSON body holds the   *)
(* key with a non-null value.                                              *)
(***************************************************************************)
EXTENDS Integers, Sequences, FiniteSets, TLC

VARIABLES convs, msgs, profiles, pantry, turn, del, put, ids, clock, ui, calls, pan, vault

vars == <<convs, msgs, profiles, pantry, turn, del, put, ids, clock, ui, calls, pan, vault>>

\* ---------------------------------------------------------------- bounds
\* chat requests (POST /api/chat) issued in one run
MaxTurns == 2
\* conversation deletions (DELETE /api/chat) issued in one run
MaxDeletes == 1
\* the most turns a conversation has had before the requests of a run
MaxEarlierTurns == 6
\* profile requests (PUT /api/profile) issued in one run
MaxPuts == 2
\* provisional conversations the chat page creates in one run
MaxCreates == 2
\* conversation listings the chat page fetches in one run
MaxFetches == 1
\* message listings the chat page fetches in one run
MaxLoads == 2
\* pantry requests (POST, PUT, DELETE /api/pantry) issued in one run
MaxPantryOps == 4
\* the longest secret given to the vault, in code units
MaxSecretLen == 3
\* the longest stored form given to the vault, in tokens
MaxStoredLen == 4

Turns == 1..MaxTurns
Dels == 1..MaxDeletes
\* the DELETE requests of a run that serves them one after another
DelSlots == 1..(MaxDeletes + 1)

\* ------------------------------------------------------------ JS strings
\* null stored in a nullable text column
Null == <<"null">>

IsSpace(c) == c \in {" ", "\t", "\n"}

RECURSIVE TrimStart(_)
TrimStart(s) ==
  IF s # <<>> /\ IsSpace(Head(s)) THEN TrimStart(Tail(s)) ELSE s

RECURSIVE TrimEnd(_)
TrimEnd(s) ==
  IF s # <<>> /\ IsSpace(s[Len(s)]) THEN TrimEnd(SubSeq(s, 1, Len(s) - 1)) ELSE s

\* String.prototype.trim
Trim(s) == TrimEnd(TrimStart(s))

\* String.prototype.split(sep) for a one-element separator: always at least one part
RECURSIVE Split(_, _)
Split(s, sep) ==
  IF \A i \in 1..Len(s) : s[i] # sep
  THEN <<s>>
  ELSE LET i == CHOOSE k \in 1..Len(s) :
                  s[k] = sep /\ \A j \in 1..(k - 1) : s[j] # sep
       IN <<SubSeq(s, 1, i - 1)>> \o Split(SubSeq(s, i + 1, Len(s)), sep)

\* Array.prototype.join(sep)
RECURSIVE Join(_, _)
Join(parts, sep) ==
  IF parts = <<>> THEN <<>>
  ELSE IF Len(parts) = 1 THEN parts[1]
  ELSE parts[1] \o <<sep>> \o Join(Tail(parts), sep)

\* Array.prototype.slice(0, n) and String.prototype.substring(0, n)
Take(s, n) == SubSeq(s, 1, IF Len(s) < n THEN Len(s) ELSE n)

Upper == <<"A", "B", "C", "D", "E", "F", "G", "H", "I", "J", "K", "L", "M",
           "N", "O", "P", "Q", "R", "S", "T", "U", "V", "W", "X", "Y", "Z">>
Lower == <<"a", "b", "c", "d", "e", "f", "g", "h", "i", "j", "k", "l", "m",
           "n", "o", "p", "q", "r", "s", "t", "u", "v", "w", "x", "y", "z">>

\* String.prototype.toLowerCase
ToLowerCase(s) ==
  [i \in 1..Len(s) |->
     IF \E k \in 1..26 : Upper[k] = s[i]
     THEN Lower[CHOOSE k \in 1..26 : Upper[k] = s[i]]
     ELSE s[i]]

\* String.prototype.includes
Includes(s, sub) ==
  \E i \in 0..(Len(s) - Len(sub)) : SubSeq(s, i + 1, i + Len(sub)) = sub

\* ------------------------------------------------------- users, sessions
\* rows of table User; the chat, pantry and profile routes never write it
Users == {"u1", "u2"}

\* what auth() resolves to: no session, a session whose user id has no
\* row, or the session of a user
Sessions == {"none", "ghost"} \cup Users

NoUser == "nouser"

getAuthenticatedUser(session) ==
  IF session = "none" THEN NoUser
  ELSE IF session \in Users THEN session
  ELSE NoUser

\* ------------------------------------------------------------ fixed texts
FallbackRecipe ==
  << "I", "'", "m", " ", "h", "a", "v", "i", "n", "g", " ", "t", "r", "o", "u", "b", "l", "e", " ",
     "c", "o", "n", "n", "e", "c", "t", "i", "n", "g", " ", "t", "o", " ", "g", "e", "n", "e", "r",
     "a", "t", "e", " ", "a", " ", "p", "e", "r", "s", "o", "n", "a", "l", "i", "z", "e", "d", " ",
     "r", "e", "c", "i", "p", "e", " ", "r", "i", "g", "h", "t", " ", "n", "o", "w", ".", " ", "P",
     "l", "e", "a", "s", "e", " ", "t", "r", "y", " ", "a", "g", "a", "i", "n", " ", "i", "n", " ",
     "a", " ", "m", "o", "m", "e", "n", "t", ",", " ", "o", "r", " ", "c", "h", "e", "c", "k", " ",
     "t", "h", "a", "t", " ", "y", "o", "u", "r", " ", "O", "p", "e", "n", "A", "I", " ", "A", "P",
     "I", " ", "k", "e", "y", " ", "i", "s", " ", "v", "a", "l", "i", "d", "." >>

FallbackWorkout ==
  << "I", "'", "m", " ", "h", "a", "v", "i", "n", "g", " ", "t", "r", "o", "u", "b", "l", "e", " ",
     "c", "o", "n", "n", "e", "c", "t", "i", "n", "g", " ", "t", "o", " ", "g", "e", "n", "e", "r",
     "a", "t", "e", " ", "a", " ", "p", "e", "r", "s", "o", "n", "a", "l", "i", "z", "e", "d", " ",
     "w", "o", "r", "k", "o", "u", "t", " ", "r", "i", "g", "h", "t", " ", "n", "o", "w", ".", " ",
     "P", "l", "e", "a", "s", "e", " ", "t", "r", "y", " ", "a", "g", "a", "i", "n", " ", "i", "n",
     " ", "a", " ", "m", "o", "m", "e", "n", "t", ",", " ", "o", "r", " ", "c", "h", "e", "c", "k",
     " ", "t", "h", "a", "t", " ", "y", "o", "u", "r", " ", "O", "p", "e", "n", "A", "I", " ", "A",
     "P", "I", " ", "k", "e", "y", " ", "i", "s", " ", "v", "a", "l", "i", "d", "." >>

FallbackGeneric ==
  << "I", "'", "m", " ", "h", "a", "v", "i", "n", "g", " ", "t", "r", "o", "u", "b", "l", "e", " ",
     "p", "r", "o", "c", "e", "s", "s", "i", "n", "g", " ", "y", "o", "u", "r", " ", "r", "e", "q",
     "u", "e", "s", "t", " ", "r", "i", "g", "h", "t", " ", "n", "o", "w", ".", " ", "P", "l", "e",
     "a", "s", "e", " ", "t", "r", "y", " ", "a", "g", "a", "i", "n", " ", "i", "n", " ", "a", " ",
     "m", "o", "m", "e", "n", "t", ",", " ", "o", "r", " ", "c", "h", "e", "c", "k", " ", "t", "h",
     "a", "t", " ", "y", "o", "u", "r", " ", "O", "p", "e", "n", "A", "I", " ", "A", "P", "I", " ",
     "k", "e", "y", " ", "i", "s", " ", "c", "o", "n", "f", "i", "g", "u", "r", "e", "d", " ", "c",
     "o", "r", "r", "e", "c", "t", "l", "y", " ", "i", "n", " ", "y", "o", "u", "r", " ", "p", "r",
     "o", "f", "i", "l", "e", "." >>

NewConversationTitle ==
  << "N", "e", "w", " ", "C", "o", "n", "v", "e", "r", "s", "a", "t", "i", "o", "n" >>

\* ------------------------------------------------------ credential vault
\* process.env.ENCRYPTION_KEY of the running process
ENCRYPTION_KEY == "k1"

\* The stored form hex(iv) ':' hex(data) is a sequence of tokens: the
\* separator character, the hex of an initialization vector, and the hex
\* of the AES-256-CBC output, which names the key, the vector and the text
\* that produced it.
Sep == [t |-> "sep"]
HexIv(iv) == [t |-> "iv", iv |-> iv]
HexCt(key, iv, text) == [t |-> "ct", key |-> key, iv |-> iv, text |-> text]

\* UTF-16 code units that are not characters: the halves of a surrogate
\* pair, and U+FFFD, which an encoder writes for a half without its other
HighSurrogate == "<D83D>"
LowSurrogate == "<DE00>"
Replacement == "<FFFD>"

\* an encoding that keeps every code unit
Utf16(text) == text

\* cipher.update(text, 'utf8', ...) followed by decipher's output
\* encoding 'utf8': the string that the UTF-8 bytes of text decode to
RECURSIVE Utf8(_)
Utf8(text) ==
  IF text = <<>> THEN <<>>
  ELSE IF Len(text) >= 2 /\ text[1] = HighSurrogate /\ text[2] = LowSurrogate
  THEN <<HighSurrogate, LowSurrogate>> \o Utf8(SubSeq(text, 3, Len(text)))
  ELSE IF text[1] = HighSurrogate \/ text[1] = LowSurrogate
  THEN <<Replacement>> \o Utf8(Tail(text))
  ELSE <<text[1]>> \o Utf8(Tail(text))

encryptApiKey(text, iv) ==
  <<HexIv(iv), Sep, HexCt(ENCRYPTION_KEY, iv, Utf8(text))>>

\* [ok |-> FALSE] stands for the thrown 'Failed to decrypt API key'
decryptApiKey(encryptedText) ==
  LET parts == Split(encryptedText, Sep)
  IN IF Len(parts) # 2 THEN [ok |-> FALSE]
     ELSE LET iv == parts[1]
              encrypted == parts[2]
          IN IF /\ Len(iv) = 1 /\ iv[1].t = "iv"
                /\ Len(encrypted) = 1 /\ encrypted[1].t = "ct"
                /\ encrypted[1].key = ENCRYPTION_KEY
                /\ encrypted[1].iv = iv[1].iv
             THEN [ok |-> TRUE, text |-> encrypted[1].text]
             ELSE [ok |-> FALSE]

\* A use of the vault by itself: a secret is encrypted under a vector, or
\* a stored form is given as it is, and what is stored is decrypted.
IdleVault ==
  [pc |-> "fresh", text |-> <<>>, iv |-> 1, stored |-> <<>>, result |-> [ok |-> FALSE]]

VaultEncrypt(text, iv) ==
  /\ vault.pc = "fresh"
  /\ vault' = [vault EXCEPT !.pc = "encrypted", !.text = text, !.iv = iv,
                            !.stored = encryptApiKey(text, iv)]
  /\ UNCHANGED <<convs, msgs, profiles, pantry, turn, del, put, ids, clock, ui, calls, pan>>

VaultGiven(encryptedText) ==
  /\ vault.pc = "fresh"
  /\ vault' = [vault EXCEPT !.pc = "given", !.stored = encryptedText]
  /\ UNCHANGED <<convs, msgs, profiles, pantry, turn, del, put, ids, clock, ui, calls, pan>>

VaultDecrypt ==
  /\ vault.pc \in {"encrypted", "given"}
  /\ vault' = [vault EXCEPT !.pc = IF vault.pc = "encrypted" THEN "returned" ELSE "read",
                            !.result = decryptApiKey(vault.stored)]
  /\ UNCHANGED <<convs, msgs, profiles, pantry, turn, del, put, ids, clock, ui, calls, pan>>

\* ------------------------------------------------------------- the store
\* conversation ids (cuid): never reused
Digits == <<"0", "1", "2", "3", "4", "5", "6", "7", "8", "9">>
IdOf(n) == <<"c", Digits[n + 1]>>

\* a lookup whose ownership test is inverted
ConversationFindUniqueOfOthers(id, userId) ==
  id \in DOMAIN convs /\ convs[id].userId # userId

\* a lookup by id alone
ConversationFindUniqueById(id, userId) == id \in DOMAIN convs

\* prisma.conversation.findUnique({ where: { id, userId } })
ConversationFindUnique(id, userId) ==
  id \in DOMAIN convs /\ convs[id].userId = userId

Reverse(s) == [i \in 1..Len(s) |-> s[Len(s) + 1 - i]]

\* take: 10 of the history query
HistoryWindow == 10

\* a query without its take
RecentMessagesAll(conversationId, userId) ==
  LET own(m) == m.conversationId = conversationId /\ m.userId = userId
      desc == Reverse(SelectSeq(msgs, own))
  IN [i \in 1..Len(desc) |-> [role |-> desc[i].role, content |-> desc[i].content]]

\* prisma.conversationMessage.findMany({ where: { conversationId, userId },
\* orderBy: { createdAt: 'desc' }, take: 10, select: { role, content } });
\* msgs is kept in createdAt order
RecentMessages(conversationId, userId) ==
  LET own(m) == m.conversationId = conversationId /\ m.userId = userId
      desc == Reverse(SelectSeq(msgs, own))
  IN [i \in 1..Len(Take(desc, HistoryWindow)) |->
        [role |-> desc[i].role, content |-> desc[i].content]]

\* a schema without the foreign key
ForeignKeyAbsent(conversationId) == TRUE

\* ConversationMessage_conversationId_fkey: a message row needs its
\* conversation row
ForeignKeyHolds(conversationId) == conversationId \in DOMAIN convs

\* prisma.conversationMessage.create
MessageCreate(role, content, userId, conversationId) ==
  Append(msgs, [id |-> ids.msg, userId |-> userId,
                conversationId |-> conversationId,
                role |-> role, content |-> content])

\* a test for null alone
IsNull(x) == x = Null

\* ------------------------------------------------------ chat route: POST
Falsy(x) == x = Null \/ x = <<>>

\* a title without the cap at 30 characters
generateConversationTitleUncapped(message) ==
  LET words == Join(Take(Split(Trim(message), " "), 4), " ")
  IN IF Trim(words) = <<>> THEN NewConversationTitle ELSE Trim(words)

generateConversationTitle(message) ==
  LET words == Join(Take(Split(Trim(message), " "), 4), " ")
      title == IF Len(words) > 30 THEN Take(words, 30) \o <<".", ".", ".">>
               ELSE words
  IN IF Trim(title) = <<>> THEN NewConversationTitle ELSE Trim(title)

\* a client built from whatever the profile row holds, without decrypting it
getUserOpenAIClientUnchecked(userId) ==
  IF userId \notin DOMAIN profiles THEN [ok |-> FALSE]
  ELSE LET userProfile == profiles[userId]
       IN IF ~userProfile.hasApiKey \/ userProfile.openaiApiKeyHash = <<>>
          THEN [ok |-> FALSE]
          ELSE [ok |-> TRUE, apiKey |-> userProfile.openaiApiKeyHash]

getUserOpenAIClient(userId) ==
  IF userId \notin DOMAIN profiles THEN [ok |-> FALSE]
  ELSE LET userProfile == profiles[userId]
       IN IF ~userProfile.hasApiKey \/ userProfile.openaiApiKeyHash = <<>>
          THEN [ok |-> FALSE]
          ELSE LET decryptedApiKey == decryptApiKey(userProfile.openaiApiKeyHash)
               IN IF decryptedApiKey.ok
                  THEN [ok |-> TRUE, apiKey |-> decryptedApiKey.text]
                  ELSE [ok |-> FALSE]

\* names an object literal inherits from Object.prototype with a function
\* as value (constructor, toString, valueOf, ...)
Constructor == <<"c", "o", "n", "s", "t", "r", "u", "c", "t", "o", "r">>
ObjectPrototype == {Constructor}

\* prisma.userProfile.findUnique (select healthGoal, dietaryPreferences,
\* fitnessLevel) and prisma.pantryItem.findMany (select itemName, category,
\* notes) of getUserContext; a null profile is the empty sequence.  fails:
\* one of the two reads rejects and the catch block answers.
getUserContext(userId, fails) ==
  IF fails THEN [profile |-> <<>>, pantryItems |-> <<>>]
  ELSE [profile |->
          IF userId \in DOMAIN profiles
          THEN <<[healthGoal |-> profiles[userId].healthGoal,
                  dietaryPreferences |-> profiles[userId].dietaryPreferences,
                  fitnessLevel |-> profiles[userId].fitnessLevel]>>
          ELSE <<>>,
        pantryItems |->
          LET own(i) == i.userId = userId
              items == SelectSeq(pantry, own)
          IN [k \in 1..Len(items) |->
                [itemName |-> items[k].itemName,
                 category |-> items[k].category,
                 notes |-> items[k].notes]]]

\* createSystemPrompt's grouping by category, acc[category].push(item) on
\* an object literal: under an inherited name acc[category] is a function
\* without push, and the call throws a TypeError
createSystemPromptThrows(userContext) ==
  \E k \in 1..Len(userContext.pantryItems) :
    userContext.pantryItems[k].category \in ObjectPrototype

\* a prompt that heads an empty inventory like a listing
createSystemPromptNoMarker(userContext) ==
  [profile |-> <<>>,
   pantry |-> [header |-> "AVAILABLE PANTRY ITEMS", items |-> userContext.pantryItems]]

\* createSystemPrompt: the prompt's sections, the fixed texts left out.
\* A profile fact is rendered when the profile has it, the pantry section
\* lists the items or says that there are none.
createSystemPrompt(userContext) ==
  LET profile == userContext.profile
      fact(label, value) ==
        IF Len(profile) = 1 /\ ~Falsy(value) THEN <<[label |-> label, value |-> value]>>
        ELSE <<>>
  IN [profile |->
        IF Len(profile) = 0 THEN <<>>
        ELSE fact("Health Goal", profile[1].healthGoal)
             \o fact("Fitness Level", profile[1].fitnessLevel)
             \o fact("Dietary Preferences", profile[1].dietaryPreferences),
      pantry |->
        IF Len(userContext.pantryItems) > 0
        THEN [header |-> "AVAILABLE PANTRY ITEMS", items |-> userContext.pantryItems]
        ELSE [header |-> "PANTRY ITEMS", items |-> <<>>]]

\* a message list without the history
CompletionMessagesNoHistory(userMessage, userContext, recentMessages) ==
  <<[role |-> "system", content |-> createSystemPrompt(userContext)],
    [role |-> "user", content |-> userMessage]>>

\* the messages generateAIResponse gives the completion call
CompletionMessages(userMessage, userContext, recentMessages) ==
  <<[role |-> "system", content |-> createSystemPrompt(userContext)]>>
  \o recentMessages
  \o <<[role |-> "user", content |-> userMessage]>>

\* what openaiClient.chat.completions.create does: it rejects, or resolves
\* with choices[0].message.content null or a text
Throws == [throws |-> TRUE, content |-> Null]
Resolves(content) == [throws |-> FALSE, content |-> content]

\* a generateAIResponse without its catch block's fallback texts
generateAIResponseNoFallback(userMessage, completion) ==
  IF completion.throws \/ Falsy(completion.content) THEN Null
  ELSE Trim(completion.content)

\* the text generateAIResponse returns, Null for null
generateAIResponse(userMessage, completion) ==
  IF completion.throws
  THEN IF \/ Includes(ToLowerCase(userMessage), <<"r", "e", "c", "i", "p", "e">>)
          \/ Includes(ToLowerCase(userMessage), <<"m", "e", "a", "l">>)
       THEN FallbackRecipe
       ELSE IF \/ Includes(ToLowerCase(userMessage), <<"w", "o", "r", "k", "o", "u", "t">>)
               \/ Includes(ToLowerCase(userMessage), <<"e", "x", "e", "r", "c", "i", "s", "e">>)
            THEN FallbackWorkout
            ELSE FallbackGeneric
  ELSE IF Falsy(completion.content) THEN Null
       ELSE Trim(completion.content)

\* A request that has not been issued yet.  session, message and
\* conversationId are the request; user, conv (currentConversationId), ctx
\* (userContext), history (recentMessages), reply (responseContent) and
\* asstMsg (aiMessage) are the handler's locals, an absent row being the
\* empty sequence; status and res are the response.  The other fields
\* record what the request did: named is what its conversationId named
\* when it was looked up, created and userMsg are the rows its two other
\* creates returned, sent, called and threw tell of the completion call:
\* the messages it was given, that it was made, that it rejected (or the
\* prompt assembly before it threw); readThrew tells that the reads of
\* getUserContext rejected.
IdleTurn ==
  [pc |-> "idle", session |-> "none", message |-> Null, conversationId |-> Null,
   named |-> "blank", user |-> NoUser, conv |-> Null, created |-> <<>>,
   userMsg |-> <<>>, asstMsg |-> <<>>, ctx |-> <<>>, history |-> <<>>,
   sent |-> <<>>, called |-> FALSE, threw |-> FALSE, readThrew |-> FALSE,
   reply |-> Null,
   status |-> 0, res |-> [message |-> ""]]

\* what a request's conversationId names for the caller
Named(session, conversationId) ==
  IF conversationId = Null \/ Trim(conversationId) = <<>> THEN "blank"
  ELSE IF conversationId \notin DOMAIN convs THEN "missing"
  ELSE IF convs[conversationId].userId = session THEN "own"
  ELSE "foreign"

\* the handler returns: its locals userContext and recentMessages are gone
Respond(t, status, res) ==
  [turn[t] EXCEPT !.pc = "done", !.status = status, !.res = res,
                  !.ctx = <<>>, !.history = <<>>, !.sent = <<>>, !.readThrew = FALSE]

\* POST: body parse, validation, authentication, resolution of the
\* conversation id
TurnStart(t, session, message, conversationId) ==
  /\ turn[t].pc = "idle"
  /\ \A s \in Turns : s < t => turn[s].pc # "idle"
  /\ UNCHANGED <<convs, msgs, profiles, pantry, pan, vault, ui, calls, put, del, ids, clock>>
  /\ LET req == [turn[t] EXCEPT !.session = session, !.message = message,
                                !.conversationId = conversationId,
                                !.named = Named(session, conversationId)]
         user == getAuthenticatedUser(session)
     IN turn' =
          [turn EXCEPT ![t] =
             IF Falsy(message)
             THEN [req EXCEPT !.pc = "done", !.status = 400,
                              !.res = [message |-> "Message is required"]]
             ELSE IF user = NoUser
             THEN [req EXCEPT !.pc = "done", !.status = 401,
                              !.res = [message |-> "Unauthorized"]]
             ELSE IF /\ ~Falsy(conversationId)
                     /\ Trim(conversationId) # <<>>
                     /\ ConversationFindUnique(conversationId, user)
             THEN [req EXCEPT !.pc = "appendUser", !.user = user,
                              !.conv = conversationId]
             ELSE [req EXCEPT !.pc = "create", !.user = user, !.conv = Null]]

\* POST: prisma.conversation.create for a turn without a resolved conversation
TurnCreate(t) ==
  /\ turn[t].pc = "create"
  /\ LET id == IdOf(ids.conv)
         newConversation == [userId |-> turn[t].user,
                             title |-> generateConversationTitle(turn[t].message),
                             lastMessage |-> turn[t].message,
                             updatedAt |-> clock]
     IN /\ convs' = [c \in DOMAIN convs \cup {id} |->
                       IF c = id THEN newConversation ELSE convs[c]]
        /\ turn' = [turn EXCEPT ![t].pc = "appendUser", ![t].conv = id,
                                ![t].created = <<[id |-> id,
                                                 userId |-> newConversation.userId]>>]
  /\ ids' = [ids EXCEPT !.conv = @ + 1]
  /\ clock' = clock + 1
  /\ UNCHANGED <<msgs, profiles, pantry, pan, vault, ui, calls, put, del>>

\* POST: prisma.conversationMessage.create of the user's message
TurnAppendUser(t) ==
  /\ turn[t].pc = "appendUser"
  /\ IF ForeignKeyHolds(turn[t].conv)
     THEN /\ msgs' = MessageCreate("user", turn[t].message, turn[t].user, turn[t].conv)
          /\ ids' = [ids EXCEPT !.msg = @ + 1]
          /\ turn' = [turn EXCEPT ![t].pc = "credential",
                                  ![t].userMsg = <<msgs'[Len(msgs')]>>]
     ELSE /\ turn' = [turn EXCEPT ![t] = Respond(t, 500, [message |-> "Error processing chat"])]
          /\ UNCHANGED <<msgs, ids>>
  /\ UNCHANGED <<convs, profiles, pantry, pan, vault, ui, calls, put, del, clock>>

\* POST: getUserOpenAIClient and the 400 for a missing credential
TurnCredential(t) ==
  /\ turn[t].pc = "credential"
  /\ turn' = [turn EXCEPT ![t] =
                IF getUserOpenAIClient(turn[t].user).ok
                THEN [turn[t] EXCEPT !.pc = "history"]
                ELSE Respond(t, 400, [message |-> "OpenAI API key not configured. Please add your API key in your profile settings."])]
  /\ UNCHANGED <<convs, msgs, profiles, pantry, pan, vault, ui, calls, put, del, ids, clock>>

\* POST: getUserContext, then the history query, reversed to
\* chronological order.  The profile and pantry rows getUserContext reads
\* are written by no chat request, so its read is taken together with the
\* history read.
TurnHistory(t, fails) ==
  /\ turn[t].pc = "history"
  /\ turn' = [turn EXCEPT ![t].pc = "complete",
                          ![t].readThrew = fails,
                          ![t].ctx = <<getUserContext(turn[t].user, fails)>>,
                          ![t].history = Reverse(RecentMessages(turn[t].conv, turn[t].user))]
  /\ UNCHANGED <<convs, msgs, profiles, pantry, pan, vault, ui, calls, put, del, ids, clock>>

\* POST: generateAIResponse and the 500 for an empty result.  A prompt
\* assembly that throws is caught like a completion call that throws, and
\* the completion is not called.
TurnComplete(t, completion) ==
  /\ turn[t].pc = "complete"
  /\ LET promptThrows == createSystemPromptThrows(turn[t].ctx[1])
         responseContent ==
           generateAIResponse(turn[t].message, IF promptThrows THEN Throws ELSE completion)
         called ==
           IF promptThrows THEN [turn[t] EXCEPT !.threw = TRUE]
           ELSE [turn[t] EXCEPT !.called = TRUE, !.threw = completion.throws,
                                !.sent = CompletionMessages(turn[t].message,
                                                            turn[t].ctx[1],
                                                            turn[t].history)]
     IN turn' =
          [turn EXCEPT ![t] =
             IF Falsy(responseContent)
             THEN [called EXCEPT !.pc = "done", !.status = 500,
                     !.res = [message |-> "Failed to generate AI response. Please try again."],
                     !.ctx = <<>>, !.history = <<>>, !.sent = <<>>, !.readThrew = FALSE]
             ELSE [called EXCEPT !.pc = "appendAssistant",
                                 !.reply = responseContent]]
  /\ UNCHANGED <<convs, msgs, profiles, pantry, pan, vault, ui, calls, put, del, ids, clock>>

\* POST: prisma.conversationMessage.create of the assistant's message
TurnAppendAssistant(t) ==
  /\ turn[t].pc = "appendAssistant"
  /\ IF ForeignKeyHolds(turn[t].conv)
     THEN /\ msgs' = MessageCreate("assistant", turn[t].reply, turn[t].user, turn[t].conv)
          /\ ids' = [ids EXCEPT !.msg = @ + 1]
          /\ turn' = [turn EXCEPT ![t].pc = "update",
                                  ![t].asstMsg = <<msgs'[Len(msgs')]>>]
     ELSE /\ turn' = [turn EXCEPT ![t] = Respond(t, 500, [message |-> "Error processing chat"])]
          /\ UNCHANGED <<msgs, ids>>
  /\ UNCHANGED <<convs, profiles, pantry, pan, vault, ui, calls, put, del, clock>>

\* POST: prisma.conversation.update of lastMessage and updatedAt, and the
\* success response
TurnUpdate(t) ==
  /\ turn[t].pc = "update"
  /\ IF turn[t].conv \in DOMAIN convs
     THEN /\ convs' = [convs EXCEPT ![turn[t].conv].lastMessage = turn[t].reply,
                                    ![turn[t].conv].updatedAt = clock]
          /\ clock' = clock + 1
          /\ turn' = [turn EXCEPT ![t] =
                        Respond(t, 200, [id |-> turn[t].asstMsg[1].id, role |-> "assistant",
                                         content |-> turn[t].reply,
                                         conversationId |-> turn[t].conv])]
     ELSE /\ turn' = [turn EXCEPT ![t] = Respond(t, 500, [message |-> "Error processing chat"])]
          /\ UNCHANGED <<convs, clock>>
  /\ UNCHANGED <<msgs, profiles, pantry, pan, vault, ui, calls, put, del, ids>>

\* ---------------------------------------------------- chat route: DELETE
IdleDel ==
  [pc |-> "idle", session |-> "none", conversationId |-> Null, user |-> NoUser,
   status |-> 0, res |-> [message |-> ""]]

\* DELETE: query parameter check, authentication, ownership lookup
DeleteStart(d, session, conversationId) ==
  /\ del[d].pc = "idle"
  /\ \A e \in DelSlots : e < d => del[e].pc # "idle"
  /\ UNCHANGED <<convs, msgs, profiles, pantry, pan, vault, ui, calls, put, turn, ids, clock>>
  /\ LET req == [del[d] EXCEPT !.session = session, !.conversationId = conversationId]
         user == getAuthenticatedUser(session)
     IN del' =
          [del EXCEPT ![d] =
             IF Falsy(conversationId)
             THEN [req EXCEPT !.pc = "done", !.status = 400,
                              !.res = [message |-> "Conversation ID is required"]]
             ELSE IF user = NoUser
             THEN [req EXCEPT !.pc = "done", !.status = 401,
                              !.res = [message |-> "Unauthorized"]]
             ELSE IF ~ConversationFindUnique(conversationId, user)
             THEN [req EXCEPT !.pc = "done", !.user = user, !.status = 404,
                              !.res = [message |-> "Conversation not found"]]
             ELSE [req EXCEPT !.pc = "messages", !.user = user]]

\* DELETE: prisma.conversationMessage.deleteMany({ where: { conversationId, userId } })
DeleteMessages(d) ==
  /\ del[d].pc = "messages"
  /\ LET kept(m) == ~(m.conversationId = del[d].conversationId /\ m.userId = del[d].user)
     IN msgs' = SelectSeq(msgs, kept)
  /\ del' = [del EXCEPT ![d].pc = "conversation"]
  /\ UNCHANGED <<convs, profiles, pantry, pan, vault, ui, calls, put, turn, ids, clock>>

\* a foreign key that lets the messages of a deleted conversation stay
OnDeleteNoAction(conversationId) == msgs

\* ON DELETE CASCADE of ConversationMessage_conversationId_fkey: the
\* messages left once the conversation row goes
OnDeleteCascade(conversationId) ==
  LET kept(m) == m.conversationId # conversationId
  IN SelectSeq(msgs, kept)

\* DELETE: prisma.conversation.delete({ where: { id, userId } }); the
\* foreign key's ON DELETE CASCADE removes the messages that are left
DeleteConversation(d) ==
  /\ del[d].pc = "conversation"
  /\ IF ConversationFindUnique(del[d].conversationId, del[d].user)
     THEN /\ convs' = [c \in DOMAIN convs \ {del[d].conversationId} |-> convs[c]]
          /\ msgs' = OnDeleteCascade(del[d].conversationId)
          /\ del' = [del EXCEPT ![d].pc = "done", ![d].status = 200,
                       ![d].res = [message |-> "Conversation deleted successfully",
                                   deletedConversationId |-> del[d].conversationId]]
     ELSE /\ del' = [del EXCEPT ![d].pc = "done", ![d].status = 500,
                       ![d].res = [message |-> "Error deleting conversation"]]
          /\ UNCHANGED <<convs, msgs>>
  /\ UNCHANGED <<profiles, pantry, pan, vault, ui, calls, put, turn, ids, clock>>

\* a listing by conversation id alone
GetMessagesOfAnyone(session, conversationId) ==
  LET in(m) == m.conversationId = conversationId
      messages == SelectSeq(msgs, in)
  IN [status |-> 200,
      res |-> [messages |->
                 [i \in 1..Len(messages) |->
                    [id |-> messages[i].id, userId |-> messages[i].userId,
                     role |-> messages[i].role, content |-> messages[i].content]]]]

\* GET ?type=messages: the caller's messages of the conversation, oldest
\* first; no conversationId, no lookup.  createdAt is the order of msgs.
GetMessages(session, conversationId) ==
  LET user == getAuthenticatedUser(session)
  IN IF user = NoUser
     THEN [status |-> 401, res |-> [message |-> "Unauthorized"]]
     ELSE IF Falsy(conversationId)
     THEN [status |-> 200, res |-> [messages |-> <<>>]]
     ELSE LET own(m) == m.conversationId = conversationId /\ m.userId = user
              messages == SelectSeq(msgs, own)
          IN [status |-> 200,
              res |-> [messages |->
                         [i \in 1..Len(messages) |->
                            [id |-> messages[i].id,
                             userId |-> messages[i].userId,
                             role |-> messages[i].role,
                             content |-> messages[i].content]]]]

\* ------------------------------------------------- PUT /api/profile
\* a shape check that passes every string
validateAnything(apiKey) == TRUE

\* validateOpenAIApiKey: the prefix sk- and twenty characters at least
validateOpenAIApiKey(apiKey) ==
  /\ Len(apiKey) >= 3
  /\ SubSeq(apiKey, 1, 3) = <<"s", "k", "-">>
  /\ Len(apiKey) >= 20

\* a body field that holds a string where an array is expected
AString == <<"a string">>
IsArray(x) == x # Null /\ x # AString

\* the columns a create does not name take the schema's defaults
ProfileDefaults == [openaiApiKeyHash |-> <<>>, hasApiKey |-> FALSE]

\* before the first request.  n counts the requests; session and body are
\* the last request, status and res its response; encrypted tells whether
\* it called encryptApiKey.
IdlePut ==
  [n |-> 0, session |-> "none",
   body |-> [healthGoal |-> Null, dietaryPreferences |-> Null,
             fitnessLevel |-> Null, apiKey |-> Null],
   encrypted |-> FALSE, status |-> 0, res |-> [message |-> ""]]

\* JavaScript's x || null
OrNull(x) == IF Falsy(x) THEN Null ELSE x
\* JavaScript's x || ''
OrEmpty(x) == IF Falsy(x) THEN <<>> ELSE x

\* an update that stores the ciphertext and leaves the flag alone
UpdateDataNoFlag(body, hash) ==
  [f \in {"healthGoal", "dietaryPreferences", "fitnessLevel", "updatedAt"}
        \cup (IF hash = <<>> THEN {} ELSE {"openaiApiKeyHash"}) |->
     CASE f = "healthGoal" -> IF Falsy(body.healthGoal) THEN Null ELSE body.healthGoal
       [] f = "dietaryPreferences" -> body.dietaryPreferences
       [] f = "fitnessLevel" -> IF Falsy(body.fitnessLevel) THEN Null ELSE body.fitnessLevel
       [] f = "updatedAt" -> clock
       [] f = "openaiApiKeyHash" -> hash]

\* an update that writes null over the fields the body does not hold
\* (healthGoal || null, fitnessLevel || null)
UpdateData(body, hash) ==
  [f \in {"healthGoal", "dietaryPreferences", "fitnessLevel", "updatedAt"}
        \cup (IF hash = <<>> THEN {} ELSE {"openaiApiKeyHash", "hasApiKey"}) |->
     CASE f = "healthGoal" -> OrNull(body.healthGoal)
       [] f = "dietaryPreferences" -> body.dietaryPreferences
       [] f = "fitnessLevel" -> OrNull(body.fitnessLevel)
       [] f = "updatedAt" -> clock
       [] f = "openaiApiKeyHash" -> hash
       [] f = "hasApiKey" -> TRUE]

\* prisma.userProfile.upsert: the row after the write
Upsert(userId, updateData) ==
  LET old == IF userId \in DOMAIN profiles
             THEN profiles[userId]
             ELSE [healthGoal |-> Null, dietaryPreferences |-> <<>>,
                   fitnessLevel |-> Null,
                   openaiApiKeyHash |-> ProfileDefaults.openaiApiKeyHash,
                   hasApiKey |-> ProfileDefaults.hasApiKey, updatedAt |-> 0]
  IN [f \in DOMAIN old |-> IF f \in DOMAIN updateData THEN updateData[f] ELSE old[f]]

\* PUT: the whole handler.  iv is the vector crypto.randomBytes draws,
\* throws tells that the cipher throws, rejects that the upsert does.
ProfilePut(session, body, iv, throws, rejects) ==
  LET user == getAuthenticatedUser(session)
      req == [put EXCEPT !.n = put.n + 1, !.session = session, !.body = body,
                         !.encrypted = FALSE]
      answer(r, status, message) ==
        [r EXCEPT !.status = status, !.res = [message |-> message]]
  IN /\ put.n < MaxPuts
     /\ UNCHANGED <<convs, msgs, pantry, pan, vault, ui, calls, turn, del, ids>>
     /\ IF ~IsArray(body.dietaryPreferences)
        THEN /\ put' = answer(req, 400, "dietaryPreferences must be an array")
             /\ UNCHANGED <<profiles, clock>>
        ELSE IF ~Falsy(body.apiKey) /\ ~validateOpenAIApiKey(body.apiKey)
        THEN /\ put' = answer(req, 400, "Invalid OpenAI API key format")
             /\ UNCHANGED <<profiles, clock>>
        ELSE IF user = NoUser
        THEN /\ put' = answer(req, 401, "Unauthorized")
             /\ UNCHANGED <<profiles, clock>>
        ELSE IF ~Falsy(body.apiKey) /\ throws
        THEN /\ put' = answer([req EXCEPT !.encrypted = TRUE], 500,
                              "Failed to encrypt API key")
             /\ UNCHANGED <<profiles, clock>>
        ELSE IF rejects
        THEN /\ put' = answer([req EXCEPT !.encrypted = ~Falsy(body.apiKey)], 500,
                              "Error updating profile")
             /\ UNCHANGED <<profiles, clock>>
        ELSE LET hash == IF Falsy(body.apiKey) THEN <<>>
                         ELSE encryptApiKey(body.apiKey, iv)
                 updatedProfile == Upsert(user, UpdateData(body, hash))
             IN /\ profiles' = [u \in DOMAIN profiles \cup {user} |->
                                  IF u = user THEN updatedProfile ELSE profiles[u]]
                /\ clock' = clock + 1
                /\ put' = [req EXCEPT
                             !.encrypted = ~Falsy(body.apiKey),
                             !.status = 200,
                             !.res = [healthGoal |-> OrEmpty(updatedProfile.healthGoal),
                                      dietaryPreferences |-> updatedProfile.dietaryPreferences,
                                      fitnessLevel |-> OrEmpty(updatedProfile.fitnessLevel),
                                      hasApiKey |-> updatedProfile.hasApiKey
                                                    \/ ~Falsy(body.apiKey),
                                      updatedAt |-> updatedProfile.updatedAt,
                                      message |-> "Profile updated successfully"]]

\* ------------------------------------------------------- /api/pantry
\* pantry item ids (cuid): never reused
ItemId(n) == <<"i", Digits[n + 1]>>

\* The last pantry request and its response.  n counts the requests; live
\* holds, for the claims, each item a POST has answered with 201 and no
\* DELETE has answered with 200 since.
IdlePan ==
  [n |-> 0, op |-> "none", session |-> "none",
   body |-> [id |-> Null, itemName |-> Null, category |-> Null, notes |-> Null],
   status |-> 0, res |-> [message |-> ""], live |-> {}]

\* a PantryItemResponse; notes: item.notes || undefined leaves the key out
\* of the JSON, here Null
formatItem(item) ==
  [id |-> item.id, itemName |-> item.itemName, category |-> item.category,
   notes |-> OrNull(item.notes), addedAt |-> item.addedAt]

\* orderBy: { addedAt: 'desc' }.  addedAt grows along pantry.
PantryList(session) ==
  LET user == getAuthenticatedUser(session)
  IN IF user = NoUser
     THEN [status |-> 401, res |-> [message |-> "Unauthorized"]]
     ELSE LET own(i) == i.userId = user
              pantryItems == Reverse(SelectSeq(pantry, own))
          IN [status |-> 200,
              res |-> [items |-> [k \in 1..Len(pantryItems) |->
                                    formatItem(pantryItems[k])]]]

\* a count: a number, or NaN
Num(k) == [nan |-> FALSE, n |-> k]
NaN == [nan |-> TRUE, n |-> 0]

\* a counting loop over a map without inherited names
RECURSIVE CountPlain(_, _)
CountPlain(items, counts) ==
  IF items = <<>> THEN counts
  ELSE LET category == Head(items).category
           now == IF category \in DOMAIN counts THEN counts[category].n ELSE 0
       IN CountPlain(Tail(items),
                     [c \in DOMAIN counts \cup {category} |->
                        IF c = category THEN Num(now + 1) ELSE counts[c]])

\* items.forEach of the statistics: categoryCounts[category] is set to 0
\* when what is read under the name is falsy (undefined, 0, NaN) and then
\* incremented; an inherited function is truthy and increments to NaN
RECURSIVE CountByCategory(_, _)
CountByCategory(items, counts) ==
  IF items = <<>> THEN counts
  ELSE LET category == Head(items).category
           own == category \in DOMAIN counts
           falsy == IF own THEN counts[category].nan \/ counts[category].n = 0
                    ELSE category \notin ObjectPrototype
           next == IF falsy THEN Num(1)
                   ELSE IF own THEN Num(counts[category].n + 1)
                   ELSE NaN
       IN CountByCategory(Tail(items),
                          [c \in DOMAIN counts \cup {category} |->
                             IF c = category THEN next ELSE counts[c]])

\* GET ?stats=true: JSON.stringify writes NaN as null
PantryStats(session) ==
  LET user == getAuthenticatedUser(session)
  IN IF user = NoUser
     THEN [status |-> 401, res |-> [message |-> "Unauthorized"]]
     ELSE LET own(i) == i.userId = user
              items == SelectSeq(pantry, own)
          IN [status |-> 200,
              res |-> [totalItems |-> Len(items),
                       categoryCounts |-> CountByCategory(items, <<>>)]]

PantryRespond(op, session, body, status, res, live) ==
  [n |-> pan.n + 1, op |-> op, session |-> session, body |-> body,
   status |-> status, res |-> res, live |-> live]

\* POST /api/pantry
PantryPost(session, body) ==
  /\ pan.n < MaxPantryOps
  /\ LET user == getAuthenticatedUser(session)
     IN IF Falsy(body.itemName) \/ Falsy(body.category)
        THEN /\ pan' = PantryRespond("POST", session, body, 400,
                         [message |-> "Item name and category are required"], pan.live)
             /\ UNCHANGED <<pantry, ids, clock>>
        ELSE IF user = NoUser
        THEN /\ pan' = PantryRespond("POST", session, body, 401,
                         [message |-> "Unauthorized"], pan.live)
             /\ UNCHANGED <<pantry, ids, clock>>
        ELSE LET newItem == [id |-> ItemId(ids.item), userId |-> user,
                             itemName |-> body.itemName, category |-> body.category,
                             notes |-> OrNull(body.notes), addedAt |-> clock]
             IN /\ pantry' = Append(pantry, newItem)
                /\ ids' = [ids EXCEPT !.item = @ + 1]
                /\ clock' = clock + 1
                /\ pan' = PantryRespond("POST", session, body, 201, formatItem(newItem),
                            pan.live \cup {[id |-> newItem.id, owner |-> user]})
  /\ UNCHANGED <<convs, msgs, profiles, turn, del, put, ui, calls, vault>>

\* an update that looks the item up by id alone
PantryFindById(id, userId) ==
  {k \in 1..Len(pantry) : pantry[k].id = id}

\* where: { id, userId }: the positions of the caller's item with the id
PantryFind(id, userId) ==
  {k \in 1..Len(pantry) : pantry[k].id = id /\ pantry[k].userId = userId}

\* PUT /api/pantry
PantryPut(session, body) ==
  /\ pan.n < MaxPantryOps
  /\ LET user == getAuthenticatedUser(session)
     IN IF Falsy(body.id) \/ Falsy(body.itemName) \/ Falsy(body.category)
        THEN /\ pan' = PantryRespond("PUT", session, body, 400,
                         [message |-> "Item ID, name and category are required"], pan.live)
             /\ UNCHANGED pantry
        ELSE IF user = NoUser
        THEN /\ pan' = PantryRespond("PUT", session, body, 401,
                         [message |-> "Unauthorized"], pan.live)
             /\ UNCHANGED pantry
        ELSE IF PantryFind(body.id, user) = {}
        THEN /\ pan' = PantryRespond("PUT", session, body, 404,
                         [message |-> "Item not found"], pan.live)
             /\ UNCHANGED pantry
        ELSE LET k == CHOOSE j \in PantryFind(body.id, user) : TRUE
                 updatedItem == [pantry[k] EXCEPT !.itemName = body.itemName,
                                                  !.category = body.category,
                                                  !.notes = OrNull(body.notes)]
             IN /\ pantry' = [pantry EXCEPT ![k] = updatedItem]
                /\ pan' = PantryRespond("PUT", session, body, 200,
                            formatItem(updatedItem), pan.live)
  /\ UNCHANGED <<convs, msgs, profiles, turn, del, put, ids, clock, ui, calls, vault>>

\* DELETE /api/pantry
PantryDelete(session, body) ==
  /\ pan.n < MaxPantryOps
  /\ LET user == getAuthenticatedUser(session)
     IN IF Falsy(body.id)
        THEN /\ pan' = PantryRespond("DELETE", session, body, 400,
                         [message |-> "Item ID is required"], pan.live)
             /\ UNCHANGED pantry
        ELSE IF user = NoUser
        THEN /\ pan' = PantryRespond("DELETE", session, body, 401,
                         [message |-> "Unauthorized"], pan.live)
             /\ UNCHANGED pantry
        ELSE IF PantryFind(body.id, user) = {}
        THEN /\ pan' = PantryRespond("DELETE", session, body, 404,
                         [message |-> "Item not found"], pan.live)
             /\ UNCHANGED pantry
        ELSE LET kept(i) == ~(i.id = body.id /\ i.userId = user)
             IN /\ pantry' = SelectSeq(pantry, kept)
                /\ pan' = PantryRespond("DELETE", session, body, 200,
                            [message |-> "Item deleted successfully"],
                            pan.live \ {[id |-> body.id, owner |-> user]})
  /\ UNCHANGED <<convs, msgs, profiles, turn, del, put, ids, clock, ui, calls, vault>>

\* ------------------------------------------- chat page: the useChat hook
\* The chat page of the signed-in user u1: the state of useChat, and the
\* calls of its asynchronous operations that wait for a response.  A call
\* keeps the selectedConversation its callback closed over.
ClientSession == "u1"

ConvPrefix == <<"c", "o", "n", "v", "_">>
TempPrefix == <<"t", "e", "m", "p", "-">>
JustNow == <<"J", "u", "s", "t", " ", "n", "o", "w">>
StartText == <<"S", "t", "a", "r", "t">>
NoneSelected == <<"N", "o", " ", "c", "o", "n", "v", "e", "r", "s", "a", "t", "i", "o", "n",
                  " ", "s", "e", "l", "e", "c", "t", "e", "d">>

\* String.prototype.startsWith
StartsWith(s, prefix) ==
  Len(s) >= Len(prefix) /\ SubSeq(s, 1, Len(prefix)) = prefix

\* formatTimeAgo, the store's clock counting minutes
formatTimeAgo(date) ==
  LET diffMins == clock - date
      diffHours == diffMins \div 60
      diffDays == diffHours \div 24
  IN IF diffMins < 1 THEN JustNow
     ELSE IF diffMins < 60 THEN <<ToString(diffMins), " ", "m", "i", "n">>
     ELSE IF diffHours < 24 THEN <<ToString(diffHours), " ", "h", "o", "u", "r">>
     ELSE <<ToString(diffDays), " ", "d", "a", "y">>

\* orderBy: { updatedAt: 'desc' }
RECURSIVE ByUpdatedAtDesc(_)
ByUpdatedAtDesc(S) ==
  IF S = {} THEN <<>>
  ELSE LET c == CHOOSE x \in S : \A y \in S : convs[y].updatedAt <= convs[x].updatedAt
       IN <<c>> \o ByUpdatedAtDesc(S \ {c})

\* GET ?type=conversations: the caller's conversations, latest update first
GetConversations(session) ==
  LET user == getAuthenticatedUser(session)
  IN IF user = NoUser
     THEN [status |-> 401, res |-> [message |-> "Unauthorized"]]
     ELSE LET conversations ==
                ByUpdatedAtDesc({c \in DOMAIN convs : convs[c].userId = user})
          IN [status |-> 200,
              res |-> [conversations |->
                         [i \in 1..Len(conversations) |->
                            [id |-> conversations[i],
                             title |-> convs[conversations[i]].title,
                             lastMessage |-> OrEmpty(convs[conversations[i]].lastMessage),
                             time |-> formatTimeAgo(convs[conversations[i]].updatedAt)]]]]

\* response.ok
IsOk(status) == status >= 200 /\ status <= 299

\* useState: the hook after the page has mounted
IdleUi ==
  [conversations |-> <<>>, selectedConversation |-> Null, messages |-> <<>>,
   isLoading |-> FALSE, error |-> Null]

IdleSend == [pc |-> "idle", t |-> 0, selectedConversation |-> Null, content |-> Null]
IdleFetch == [pc |-> "idle", selectedConversation |-> Null, status |-> 0,
              res |-> [message |-> ""]]
IdleRemove == [pc |-> "idle", d |-> 0, conversationId |-> Null,
               selectedConversation |-> Null]

\* no call waits; now is the reading Date.now() gives the next gesture,
\* creates, fetches and loaded count the calls made so far; loads are the
\* calls of fetchMessages that wait for a response;
\* page says whether the hook runs under the chat page, whose effect loads
\* the messages of a selected conversation
IdleCalls ==
  [page |-> FALSE, now |-> 1, creates |-> 0, fetches |-> 0, loaded |-> 0,
   send |-> IdleSend, fetch |-> IdleFetch, remove |-> IdleRemove,
   loads |-> <<>>]

\* page.tsx, the effect on [selectedConversation]: the render that follows
\* a change of the selection runs fetchMessages for the selected
\* conversation, if one is selected
SelectionEffect(u) ==
  /\ calls.page
  /\ u.selectedConversation # ui.selectedConversation
  /\ ~Falsy(u.selectedConversation)

\* fetchMessages up to its await: the error and the displayed messages are
\* cleared
PageUi(u) ==
  IF SelectionEffect(u) THEN [u EXCEPT !.error = Null, !.messages = <<>>] ELSE u

\* fetchMessages up to its await: the request leaves
PageCalls(u, c) ==
  IF SelectionEffect(u)
  THEN [c EXCEPT !.loaded = @ + 1,
                 !.loads = Append(@, [pc |-> "sent",
                                      conversationId |-> u.selectedConversation,
                                      status |-> 0, res |-> [message |-> ""]])]
  ELSE c

\* a handler of the hook has set the state u and left the calls c: the page
\* renders and its effect runs
Render(u, c) ==
  /\ SelectionEffect(u) => calls.loaded < MaxLoads
  /\ ui' = PageUi(u)
  /\ calls' = PageCalls(u, c)

\* `conv_${Date.now()}`
ProvisionalId(now) == ConvPrefix \o <<Digits[now + 1]>>

\* createNewConversation: a provisional entry at the head of the list,
\* selected, with no messages
createNewConversation ==
  /\ calls.creates < MaxCreates
  /\ LET newConversation ==
           [id |-> ProvisionalId(calls.now), title |-> NewConversationTitle,
            lastMessage |-> StartText, time |-> JustNow]
     IN Render([ui EXCEPT !.conversations = <<newConversation>> \o @,
                          !.selectedConversation = newConversation.id,
                          !.messages = <<>>],
               [calls EXCEPT !.now = @ + 1, !.creates = @ + 1])
  /\ UNCHANGED <<convs, msgs, profiles, pantry, pan, vault, turn, del, put, ids, clock>>

\* ConversationSidebar: a click on an entry of the list
setSelectedConversation(id) ==
  /\ \E i \in 1..Len(ui.conversations) : ui.conversations[i].id = id
  /\ id # ui.selectedConversation
  /\ Render([ui EXCEPT !.selectedConversation = id], calls)
  /\ UNCHANGED <<convs, msgs, profiles, pantry, pan, vault, turn, del, put, ids, clock>>

\* the page's mount effect calls fetchConversations: the request leaves
fetchConversations ==
  /\ calls.fetch.pc = "idle"
  /\ calls.fetches < MaxFetches
  /\ ui' = [ui EXCEPT !.error = Null]
  /\ calls' = [calls EXCEPT !.fetches = @ + 1,
                            !.fetch = [IdleFetch EXCEPT
                                         !.pc = "sent",
                                         !.selectedConversation = ui.selectedConversation]]
  /\ UNCHANGED <<convs, msgs, profiles, pantry, pan, vault, turn, del, put, ids, clock>>

\* the server answers GET ?type=conversations
FetchServe ==
  /\ calls.fetch.pc = "sent"
  /\ LET response == GetConversations(ClientSession)
     IN calls' = [calls EXCEPT !.fetch.pc = "answered",
                               !.fetch.status = response.status,
                               !.fetch.res = response.res]
  /\ UNCHANGED <<convs, msgs, profiles, pantry, pan, vault, turn, del, put, ids, clock, ui>>

IdsOf(conversations) == {conversations[i].id : i \in 1..Len(conversations)}

\* a merge that keeps no local entry
LocalOnlyNone(prev, serverIds) == <<>>

\* the entries of the list that the server has not confirmed
LocalOnly(prev, serverIds) ==
  LET local(c) == c.id \notin serverIds /\ StartsWith(c.id, ConvPrefix)
  IN SelectSeq(prev, local)

\* fetchConversations after its await: the response is merged into the list
FetchResponse ==
  /\ calls.fetch.pc = "answered"
  /\ LET returned == [calls EXCEPT !.fetch = IdleFetch]
     IN IF ~IsOk(calls.fetch.status)
        THEN Render([ui EXCEPT !.error = <<"Failed to fetch conversations",
                                           calls.fetch.status>>], returned)
        ELSE LET data == calls.fetch.res
                 serverIds == IdsOf(data.conversations)
             IN Render([ui EXCEPT
                          !.conversations = LocalOnly(@, serverIds) \o data.conversations,
                          !.selectedConversation =
                            IF Len(data.conversations) > 0
                               /\ Falsy(calls.fetch.selectedConversation)
                            THEN data.conversations[1].id ELSE @], returned)
  /\ UNCHANGED <<convs, msgs, profiles, pantry, pan, vault, turn, del, put, ids, clock>>

\* a form that submits while a turn is loading
CanSubmitAlways(content) == Trim(content) # <<>>

\* ChatInterface.handleSubmit: input.trim() && !isLoading
CanSubmit(content) == Trim(content) # <<>> /\ ~ui.isLoading

\* ChatInterface.handleSubmit and sendMessage up to its await: the form
\* submits a text while no turn is loading; the user's message is shown
\* and the request leaves
sendMessage(content) ==
  /\ CanSubmit(content)
  /\ IF Falsy(ui.selectedConversation)
     THEN /\ ui' = [ui EXCEPT !.error = NoneSelected]
          /\ UNCHANGED calls
     ELSE /\ \E t \in Turns : turn[t].pc = "idle"
          /\ LET userMessage == [id |-> TempPrefix \o <<Digits[calls.now + 1]>>,
                                 role |-> "user", content |-> content]
                 t == CHOOSE s \in Turns :
                        turn[s].pc = "idle" /\ \A r \in Turns : r < s => turn[r].pc # "idle"
             IN /\ ui' = [ui EXCEPT !.error = Null,
                                    !.messages = Append(@, userMessage),
                                    !.isLoading = TRUE]
                /\ calls' = [calls EXCEPT
                               !.now = @ + 1,
                               !.send = [pc |-> "sent", t |-> t,
                                         selectedConversation |-> ui.selectedConversation,
                                         content |-> content]]
  /\ UNCHANGED <<convs, msgs, profiles, pantry, pan, vault, turn, del, put, ids, clock>>

\* the conversationId of the request body
SentConversationId(selectedConversation) ==
  IF StartsWith(selectedConversation, ConvPrefix) THEN Null ELSE selectedConversation

\* the server receives the POST of the waiting sendMessage
SendReceive ==
  /\ calls.send.pc = "sent"
  /\ TurnStart(calls.send.t, ClientSession, calls.send.content,
               SentConversationId(calls.send.selectedConversation))

\* content.length > 30 ? content.substring(0, 30) + '...' : content
ClientTitle(content) ==
  IF Len(content) > 30 THEN Take(content, 30) \o <<".", ".", ".">> ELSE content

\* a reconciliation that adds the confirmed conversation at the head
ReconcileAtHead(prev, tempConversationId, conversationId, content) ==
  <<[id |-> conversationId, title |-> ClientTitle(content),
     lastMessage |-> content, time |-> JustNow]>> \o prev

\* the provisional entry takes the id the server assigned
Reconcile(prev, tempConversationId, conversationId, content) ==
  [i \in 1..Len(prev) |->
     IF prev[i].id = tempConversationId
     THEN [prev[i] EXCEPT !.id = conversationId, !.title = ClientTitle(content),
                          !.lastMessage = content, !.time = JustNow]
     ELSE prev[i]]

\* the entry of a confirmed conversation shows the message just sent
Touch(prev, selectedConversation, content) ==
  [i \in 1..Len(prev) |->
     IF prev[i].id = selectedConversation
     THEN [prev[i] EXCEPT !.lastMessage = content, !.time = JustNow]
     ELSE prev[i]]

\* sendMessage after its await: the response of the turn
SendResponse ==
  /\ calls.send.pc = "sent"
  /\ turn[calls.send.t].pc = "done"
  /\ LET response == turn[calls.send.t]
         aiResponse == response.res
         selectedConversation == calls.send.selectedConversation
         content == calls.send.content
         isTemporaryConversation == StartsWith(selectedConversation, ConvPrefix)
         returned == [calls EXCEPT !.send = IdleSend]
     IN IF ~IsOk(response.status)
        THEN Render([ui EXCEPT !.error = <<"Failed to send message", response.status>>,
                               !.isLoading = FALSE], returned)
        ELSE IF isTemporaryConversation /\ ~Falsy(aiResponse.conversationId)
        THEN Render([ui EXCEPT
                       !.messages = Append(@, aiResponse),
                       !.conversations = Reconcile(@, selectedConversation,
                                                   aiResponse.conversationId, content),
                       !.selectedConversation = aiResponse.conversationId,
                       !.isLoading = FALSE], returned)
        ELSE Render([ui EXCEPT
                       !.messages = Append(@, aiResponse),
                       !.conversations = Touch(@, selectedConversation, content),
                       !.isLoading = FALSE], returned)
  /\ UNCHANGED <<convs, msgs, profiles, pantry, pan, vault, turn, del, put, ids, clock>>

\* the list and the selection once a conversation has been removed
Removed(conversationId, selectedConversation) ==
  LET kept(c) == c.id # conversationId
      rest == SelectSeq(ui.conversations, kept)
  IN IF selectedConversation = conversationId
     THEN [ui EXCEPT !.conversations = rest,
                     !.selectedConversation = IF Len(rest) > 0 THEN rest[1].id ELSE Null,
                     !.messages = <<>>]
     ELSE [ui EXCEPT !.conversations = rest]

\* ConversationSidebar's delete button and deleteConversation up to its
\* await: a provisional conversation is removed at once, a confirmed one
\* once the server has answered
deleteConversation ==
  /\ ~Falsy(ui.selectedConversation)
  /\ calls.remove.pc = "idle"
  /\ LET conversationId == ui.selectedConversation
     IN IF StartsWith(conversationId, ConvPrefix)
        THEN Render([Removed(conversationId, ui.selectedConversation)
                       EXCEPT !.error = Null], calls)
        ELSE /\ \E d \in Dels : del[d].pc = "idle"
             /\ ui' = [ui EXCEPT !.error = Null]
             /\ calls' = [calls EXCEPT
                            !.remove =
                              [pc |-> "sent",
                               d |-> CHOOSE e \in Dels :
                                       /\ del[e].pc = "idle"
                                       /\ \A f \in Dels : f < e => del[f].pc # "idle",
                               conversationId |-> conversationId,
                               selectedConversation |-> ui.selectedConversation]]
  /\ UNCHANGED <<convs, msgs, profiles, pantry, pan, vault, turn, del, put, ids, clock>>

\* the server receives the DELETE of the waiting deleteConversation
DeleteReceive ==
  /\ calls.remove.pc = "sent"
  /\ DeleteStart(calls.remove.d, ClientSession, calls.remove.conversationId)

\* deleteConversation after its await: the response of the deletion
DeleteResponse ==
  /\ calls.remove.pc = "sent"
  /\ del[calls.remove.d].pc = "done"
  /\ LET returned == [calls EXCEPT !.remove = IdleRemove]
     IN IF ~IsOk(del[calls.remove.d].status)
        THEN Render([ui EXCEPT !.error = <<"Failed to delete conversation",
                                           del[calls.remove.d].status>>], returned)
        ELSE Render(Removed(calls.remove.conversationId,
                            calls.remove.selectedConversation), returned)
  /\ UNCHANGED <<convs, msgs, profiles, pantry, pan, vault, turn, del, put, ids, clock>>

\* the calls of fetchMessages without call i
Without(loads, i) ==
  [j \in 1..(Len(loads) - 1) |-> IF j < i THEN loads[j] ELSE loads[j + 1]]

\* the server answers the GET ?type=messages of a waiting fetchMessages
LoadServe(i) ==
  /\ i \in 1..Len(calls.loads)
  /\ calls.loads[i].pc = "sent"
  /\ LET response == GetMessages(ClientSession, calls.loads[i].conversationId)
     IN calls' = [calls EXCEPT !.loads[i].pc = "answered",
                               !.loads[i].status = response.status,
                               !.loads[i].res = response.res]
  /\ UNCHANGED <<convs, msgs, profiles, pantry, pan, vault, turn, del, put, ids, clock, ui>>

\* fetchMessages after its await: the messages of the response are shown
LoadResponse(i) ==
  /\ i \in 1..Len(calls.loads)
  /\ calls.loads[i].pc = "answered"
  /\ LET returned == [calls EXCEPT !.loads = Without(@, i)]
     IN IF ~IsOk(calls.loads[i].status)
        THEN Render([ui EXCEPT !.error = <<"Failed to fetch messages",
                                           calls.loads[i].status>>], returned)
        ELSE Render([ui EXCEPT !.messages = calls.loads[i].res.messages], returned)
  /\ UNCHANGED <<convs, msgs, profiles, pantry, pan, vault, turn, del, put, ids, clock>>

\* ------------------------------------------------------------ the system
Hi == <<"h", "i">>
Meal == <<"a", " ", "M", "e", "a", "l">>
Ok == <<"o", "k">>

\* request bodies: message missing, empty, or a text
Messages == {Null, <<>>, Hi, Meal}

\* the messages of the turns that run concurrently
TurnMessages == {Hi}

\* a stored key of 20 characters that starts with sk-
ApiKey ==
  <<"s", "k", "-", "0", "1", "2", "3", "4", "5", "6", "7", "8", "9", "a", "b", "c",
    "d", "e", "f", "g">>

NoKeyProfile ==
  [healthGoal |-> Null, dietaryPreferences |-> <<>>, fitnessLevel |-> Null,
   openaiApiKeyHash |-> <<>>, hasApiKey |-> FALSE, updatedAt |-> 0]

\* a key stored by PUT /api/profile under the running process's key
KeyProfile ==
  [NoKeyProfile EXCEPT !.openaiApiKeyHash = encryptApiKey(ApiKey, 1), !.hasApiKey = TRUE]

\* a key stored under an earlier ENCRYPTION_KEY
StaleKeyProfile ==
  [NoKeyProfile EXCEPT !.openaiApiKeyHash = <<HexIv(1), Sep, HexCt("k0", 1, ApiKey)>>,
                       !.hasApiKey = TRUE]

\* each user: no profile row, a row without a key, a row with a key, or a
\* row with a key of an earlier deployment
InitProfiles ==
  UNION { [S -> {NoKeyProfile, KeyProfile, StaleKeyProfile}] : S \in SUBSET Users }

\* u1 has stored a key, u2 has no profile row
KeyOfU1 == [u \in {"u1"} |-> KeyProfile]

\* conversation ids a client can name: none, blank, an id that never
\* existed, and every id the store has handed out
KnownIds == {IdOf(n) : n \in 0..(ids.conv - 1)}
RequestIds == {Null, <<>>, <<" ">>} \cup KnownIds

\* what the provider can answer
Completions == {Throws, Resolves(Null), Resolves(<<" ">>), Resolves(<<"o", "k", " ">>)}

\* The store after u1's first turn (message "hi", answer "ok"): one
\* conversation with its two messages.
InitStore ==
  /\ convs = (IdOf(1) :> [userId |-> "u1", title |-> generateConversationTitle(Hi),
                          lastMessage |-> Ok, updatedAt |-> 1])
  /\ msgs = <<[id |-> 1, userId |-> "u1", conversationId |-> IdOf(1),
               role |-> "user", content |-> Hi],
              [id |-> 2, userId |-> "u1", conversationId |-> IdOf(1),
               role |-> "assistant", content |-> Ok]>>
  /\ pantry = <<>>
  /\ turn = [t \in Turns |-> IdleTurn]
  /\ del = [d \in DelSlots |-> IdleDel]
  /\ put = IdlePut
  /\ ui = IdleUi
  /\ calls = IdleCalls
  /\ pan = IdlePan
  /\ vault = IdleVault
  /\ ids = [conv |-> 2, msg |-> 3, item |-> 1]
  /\ clock = 2

TurnSteps ==
  \/ \E t \in Turns : TurnCreate(t)
  \/ \E t \in Turns : TurnAppendUser(t)
  \/ \E t \in Turns : TurnCredential(t)
  \/ \E t \in Turns, fails \in BOOLEAN : TurnHistory(t, fails)
  \/ \E t \in Turns, completion \in Completions : TurnComplete(t, completion)
  \/ \E t \in Turns : TurnAppendAssistant(t)
  \/ \E t \in Turns : TurnUpdate(t)

DeleteSteps ==
  \/ \E d \in DelSlots : DeleteMessages(d)
  \/ \E d \in DelSlots : DeleteConversation(d)

\* Concurrent requests of signed-in users: the handlers interleave at
\* their awaits.
Init == InitStore /\ profiles = KeyOfU1

Next ==
  \/ \E t \in Turns, session \in Users, message \in TurnMessages,
        conversationId \in {Null, <<" ">>} \cup KnownIds :
       TurnStart(t, session, message, conversationId)
  \/ TurnSteps
  \/ \E d \in Dels, session \in Users, conversationId \in KnownIds :
       DeleteStart(d, session, conversationId)
  \/ DeleteSteps

Spec == Init /\ [][Next]_vars

\* One chat turn of any caller with any payload, and deletions before or
\* after it, served one at a time.
InitSerial == InitStore /\ profiles \in InitProfiles

Quiet ==
  /\ \A t \in Turns : turn[t].pc \in {"idle", "done"}
  /\ \A d \in DelSlots : del[d].pc \in {"idle", "done"}

NextSerial ==
  \/ /\ Quiet
     /\ \A t \in Turns : turn[t].pc = "idle"
     /\ \E t \in Turns, session \in Sessions, message \in Messages,
           conversationId \in RequestIds :
          TurnStart(t, session, message, conversationId)
  \/ TurnSteps
  \/ /\ Quiet
     /\ \E d \in Dels, session \in Sessions, conversationId \in RequestIds :
          DeleteStart(d, session, conversationId)
  \/ DeleteSteps

SpecSerial == InitSerial /\ [][NextSerial]_vars

\* One chat turn of a signed-in user and deletions of any caller, one
\* more of them than run concurrently, served one at a time.
InitDelete == InitStore /\ profiles = [u \in Users |-> KeyProfile]

NextDelete ==
  \/ /\ Quiet
     /\ \A t \in Turns : turn[t].pc = "idle"
     /\ \E t \in Turns, session \in Users, message \in TurnMessages,
           conversationId \in RequestIds :
          TurnStart(t, session, message, conversationId)
  \/ TurnSteps
  \/ /\ Quiet
     /\ \E d \in DelSlots, session \in Sessions, conversationId \in RequestIds :
          DeleteStart(d, session, conversationId)
  \/ DeleteSteps

SpecDelete == InitDelete /\ [][NextDelete]_vars

\* request bodies of PUT /api/profile: each field absent, empty or set
Goal == <<"g">>
Level == <<"l">>
Vegan == <<<<"v">>>>
ShortKey == <<"s", "k", "-", "1">>
Bodies ==
  [healthGoal : {Null, Goal},
   dietaryPreferences : {Null, AString, <<>>, Vegan},
   fitnessLevel : {Null, Level},
   apiKey : {Null, <<>>, ShortKey, ApiKey}]

\* Profile upserts of any caller on a store without profiles, one after
\* another.
InitProfile == InitStore /\ profiles = <<>>

\* the cipher draws a vector, and may throw, only for a key that reaches it
NextProfile ==
  \E session \in Sessions, body \in Bodies, iv \in 1..2,
     throws \in BOOLEAN, rejects \in BOOLEAN :
    /\ body.apiKey # ApiKey => (iv = 1 /\ ~throws)
    /\ ProfilePut(session, body, iv, throws, rejects)

SpecProfile == InitProfile /\ [][NextProfile]_vars

\* The chat page of u1 and the server behind it: the gestures of the
\* user, the requests they send and the responses that come back, in any
\* order the awaits allow.
InitClient == InitStore /\ profiles = KeyOfU1

NextClient ==
  \/ fetchConversations
  \/ FetchServe
  \/ FetchResponse
  \/ createNewConversation
  \/ \E id \in IdsOf(ui.conversations) : setSelectedConversation(id)
  \/ \E content \in TurnMessages : sendMessage(content)
  \/ SendReceive
  \/ TurnSteps
  \/ SendResponse
  \/ deleteConversation
  \/ DeleteReceive
  \/ DeleteSteps
  \/ DeleteResponse

SpecClient == InitClient /\ [][NextClient]_vars

\* The chat page: the hook under the page's effect on the selection, which
\* runs fetchMessages.  The effect and fetchMessages write messages and
\* error alone, which no handler of the hook reads: SpecClient leaves them
\* out, SpecPage has them.
InitPage ==
  /\ convs = (IdOf(1) :> [userId |-> "u1", title |-> generateConversationTitle(Hi),
                          lastMessage |-> Ok, updatedAt |-> 1])
  /\ msgs = <<[id |-> 1, userId |-> "u1", conversationId |-> IdOf(1),
               role |-> "user", content |-> Hi],
              [id |-> 2, userId |-> "u1", conversationId |-> IdOf(1),
               role |-> "assistant", content |-> Ok]>>
  /\ profiles = KeyOfU1
  /\ pantry = <<>>
  /\ turn = [t \in Turns |-> IdleTurn]
  /\ del = [d \in DelSlots |-> IdleDel]
  /\ put = IdlePut
  /\ ui = IdleUi
  /\ calls = [IdleCalls EXCEPT !.page = TRUE]
  /\ pan = IdlePan
  /\ vault = IdleVault
  /\ ids = [conv |-> 2, msg |-> 3, item |-> 1]
  /\ clock = 2

NextPage ==
  \/ fetchConversations
  \/ FetchServe
  \/ FetchResponse
  \/ createNewConversation
  \/ \E id \in IdsOf(ui.conversations) : setSelectedConversation(id)
  \/ \E content \in TurnMessages : sendMessage(content)
  \/ SendReceive
  \/ TurnSteps
  \/ SendResponse
  \/ \E i \in 1..MaxLoads : LoadServe(i)
  \/ \E i \in 1..MaxLoads : LoadResponse(i)

SpecPage == InitPage /\ [][NextPage]_vars

\* request bodies of /api/pantry: each field absent, empty or set; a
\* category of the page's form, and one that is a name every object has
Rice == <<"R", "i", "c", "e">>
Grain == <<"G", "r", "a", "i", "n">>
ItemIds == {Null, ItemId(0)} \cup {ItemId(n) : n \in 1..(ids.item - 1)}
PantryBodies ==
  [id : ItemIds, itemName : {<<>>, Rice}, category : {Null, Grain, Constructor},
   notes : {Null}]

\* Pantry requests of any caller on an empty pantry, one after another.
InitPantry == InitStore /\ profiles = <<>>

NextPantry ==
  \/ \E session \in Sessions, body \in PantryBodies :
       body.id = Null /\ PantryPost(session, body)
  \/ \E session \in Sessions, body \in PantryBodies : PantryPut(session, body)
  \/ \E session \in Sessions, body \in PantryBodies :
       (body.itemName = <<>> /\ body.category = Null) /\ PantryDelete(session, body)

SpecPantry == InitPantry /\ [][NextPantry]_vars

\* secrets: strings of ordinary characters and surrogate halves
SeqsUpTo(S, n) == UNION {[1..k -> S] : k \in 0..n}
Secrets == SeqsUpTo({"s", "-", HighSurrogate, LowSurrogate}, MaxSecretLen)
Ivs == 1..2
\* stored forms: any tokens, well formed or not
StoredForms ==
  SeqsUpTo({Sep, HexIv(1), HexIv(2), HexCt(ENCRYPTION_KEY, 1, <<"s">>),
            HexCt("k0", 1, <<"s">>)}, MaxStoredLen)

\* The vault by itself, on any secret and on any stored form.
InitVault == InitStore /\ profiles = <<>>

NextVault ==
  \/ \E text \in Secrets, iv \in Ivs : VaultEncrypt(text, iv)
  \/ \E encryptedText \in StoredForms : VaultGiven(encryptedText)
  \/ VaultDecrypt

SpecVault == InitVault /\ [][NextVault]_vars

\* first messages of a conversation: white space alone, words parted by
\* one space or by two, a word of 31 characters, and four words of 9
Rep(c, n) == [i \in 1..n |-> c]
TitleMessages ==
  {<<" ">>, Hi, Meal,
   <<"a", " ", "b", " ", "c", " ", "d", " ", "e">>,
   <<"a", " ", "b", " ", "c", " ", " ", "d">>,
   Rep("x", 31),
   Rep("x", 9) \o <<" ">> \o Rep("y", 9) \o <<" ">> \o Rep("z", 9) \o <<" ">> \o Rep("w", 9)}

\* Turns of u1 that open a conversation, one after another.
InitTitle == InitStore /\ profiles = KeyOfU1

NextTitle ==
  \/ /\ Quiet
     /\ \E t \in Turns, message \in TitleMessages :
          TurnStart(t, "u1", message, Null)
  \/ TurnSteps

SpecTitle == InitTitle /\ [][NextTitle]_vars

\* a profile with a key and every fact
FullProfile ==
  [KeyProfile EXCEPT !.healthGoal = Goal, !.fitnessLevel = Level,
                     !.dietaryPreferences = Vegan]

\* Turns of u1, who has a key and a profile with or without facts, and of
\* u2, who has no profile row or one with a key, one after another.
InitContext ==
  /\ InitStore
  /\ profiles \in {[u \in {"u1"} |-> KeyProfile], [u \in {"u1"} |-> FullProfile],
                   [u \in Users |-> IF u = "u1" THEN FullProfile ELSE KeyProfile]}

NextContext ==
  \/ /\ Quiet
     /\ \E t \in Turns, session \in Users, message \in TurnMessages :
          TurnStart(t, session, message, Null)
  \/ TurnSteps
  \/ /\ Quiet
     /\ \A t \in Turns : turn[t].pc = "idle"
     /\ pantry = <<>>
     /\ \E session \in Users, category \in {Grain, Constructor} :
          PantryPost(session, [id |-> Null, itemName |-> Rice,
                               category |-> category, notes |-> Null])

SpecContext == InitContext /\ [][NextContext]_vars

\* the messages of a conversation of u1 after n turns, each answered
Earlier(n) ==
  [i \in 1..(2 * n) |->
     [id |-> i, userId |-> "u1", conversationId |-> IdOf(1),
      role |-> IF i % 2 = 1 THEN "user" ELSE "assistant",
      content |-> IF i % 2 = 0 THEN Ok ELSE IF i % 4 = 1 THEN Hi ELSE Meal]]

\* Concurrent turns of signed-in users on a store in which u1's conversation
\* has had up to MaxEarlierTurns turns.
InitWindow ==
  \E n \in 1..MaxEarlierTurns :
    /\ convs = (IdOf(1) :> [userId |-> "u1", title |-> generateConversationTitle(Hi),
                            lastMessage |-> Ok, updatedAt |-> n])
    /\ msgs = Earlier(n)
    /\ profiles = KeyOfU1
    /\ pantry = <<>>
    /\ turn = [t \in Turns |-> IdleTurn]
    /\ del = [d \in DelSlots |-> IdleDel]
    /\ put = IdlePut
    /\ ui = IdleUi
    /\ calls = IdleCalls
    /\ pan = IdlePan
    /\ vault = IdleVault
    /\ ids = [conv |-> 2, msg |-> 2 * n + 1, item |-> 1]
    /\ clock = n + 1

NextWindow ==
  \/ \E t \in Turns, session \in Users, message \in TurnMessages,
        conversationId \in {Null} \cup KnownIds :
       TurnStart(t, session, message, conversationId)
  \/ TurnSteps

SpecWindow == InitWindow /\ [][NextWindow]_vars

\* ---------------------------------------------------------------------
\* Properties of a chat turn

Done(t) == turn[t].pc = "done"

\* an authenticated request with a non-empty message
ValidTurn(t) ==
  /\ turn[t].pc # "idle"
  /\ turn[t].session \in Users
  /\ turn[t].message # Null
  /\ turn[t].message # <<>>

\* the turn stored a message of this role and content in this conversation
\* for this user
StoredIn(row, role, content, conversationId, userId) ==
  /\ Len(row) = 1
  /\ row[1].role = role
  /\ row[1].content = content
  /\ row[1].conversationId = conversationId
  /\ row[1].userId = userId

\* the turn created one conversation, owned by its caller
CreatedOwn(t) ==
  /\ Len(turn[t].created) = 1
  /\ turn[t].created[1].userId = turn[t].session

\* every conversation created so far was created by one turn, once
OneCreatePerTurn ==
  ids.conv - 2 = Cardinality({t \in Turns : turn[t].created # <<>>})

StoreRejected == [message |-> "Error processing chat"]
CredentialMissing ==
  [message |-> "OpenAI API key not configured. Please add your API key in your profile settings."]
EmptyCompletion ==
  [message |-> "Failed to generate AI response. Please try again."]

MessagesOf(store, conversationId) ==
  LET in(m) == m.conversationId = conversationId
  IN SelectSeq(store, in)

\* the response is the success shape for the turn's assistant message
Success(t) ==
  /\ turn[t].status = 200
  /\ Len(turn[t].asstMsg) = 1
  /\ turn[t].res = [id |-> turn[t].asstMsg[1].id, role |-> "assistant",
                    content |-> turn[t].asstMsg[1].content,
                    conversationId |-> turn[t].asstMsg[1].conversationId]

C2_State ==
  \A t \in Turns :
    (Done(t) /\ ValidTurn(t) /\ turn[t].named \in {"missing", "foreign"}) =>
      /\ CreatedOwn(t)
      /\ turn[t].created[1].id # turn[t].conversationId
      /\ \/ Success(t)
         \/ turn[t].res = CredentialMissing
         \/ turn[t].res = EmptyCompletion
      /\ StoredIn(turn[t].userMsg, "user", turn[t].message,
                  turn[t].created[1].id, turn[t].session)
      /\ turn[t].status = 200 =>
           StoredIn(turn[t].asstMsg, "assistant", turn[t].reply,
                    turn[t].created[1].id, turn[t].session)

C2_Step ==
  \A t \in Turns :
    (turn'[t] # turn[t] /\ turn'[t].named = "foreign") =>
      LET c == turn'[t].conversationId
      IN /\ c \in DOMAIN convs => (c \in DOMAIN convs' /\ convs'[c] = convs[c])
         /\ MessagesOf(msgs', c) = MessagesOf(msgs, c)

C3_Stated ==
  [][\A t \in Turns :
       (/\ turn[t].pc \in {"appendUser", "appendAssistant"}
        /\ turn'[t] # turn[t]
        /\ Len(msgs') = Len(msgs) + 1) =>
         LET m == msgs'[Len(msgs')]
         IN /\ convs'[m.conversationId].lastMessage = m.content
            /\ convs'[m.conversationId].updatedAt >= convs[m.conversationId].updatedAt]_vars

\* C4 as stated: when a turn appends its assistant message, the messages
\* persisted in the conversation before it, the last ten of them, oldest
\* first, are the history the turn loaded for its completion.
C4_Stated ==
  [][\A t \in Turns :
       (/\ turn[t].pc = "appendAssistant"
        /\ turn'[t].pc = "update") =>
         turn[t].history = Reverse(RecentMessages(turn[t].conv, turn[t].user))]_vars

\* the caller's stored credential cannot be used
CredentialUnusable(u) ==
  \/ u \notin DOMAIN profiles
  \/ ~profiles[u].hasApiKey
  \/ profiles[u].openaiApiKeyHash = <<>>
  \/ ~decryptApiKey(profiles[u].openaiApiKeyHash).ok

C5_State ==
  \A t \in Turns :
    (ValidTurn(t) /\ CredentialUnusable(turn[t].session)) =>
      /\ ~turn[t].called
      /\ turn[t].asstMsg = <<>>
      /\ turn[t].pc \in {"create", "appendUser", "credential", "done"}
      /\ \A i \in 1..Len(msgs) : msgs[i].id >= 3 => msgs[i].role = "user"
      /\ Done(t) =>
           /\ turn[t].status = 400
           /\ turn[t].res = CredentialMissing
           /\ StoredIn(turn[t].userMsg, "user", turn[t].message,
                       turn[t].conv, turn[t].session)

C5_Step ==
  \A t \in Turns :
    (turn[t].pc = "credential" /\ turn'[t].pc = "done") =>
      /\ msgs' = msgs
      /\ convs' = convs
      /\ \E i \in 1..Len(msgs') : msgs'[i] = turn'[t].userMsg[1]

Fallbacks == {FallbackRecipe, FallbackWorkout, FallbackGeneric}

C6_State ==
  \A t \in Turns :
    turn[t].threw =>
      /\ turn[t].pc \in {"appendAssistant", "update", "done"}
      /\ turn[t].reply \in Fallbacks
      /\ turn[t].message = Meal => turn[t].reply = FallbackRecipe
      /\ turn[t].message = Hi => turn[t].reply = FallbackGeneric
      /\ Done(t) =>
           /\ Success(t)
           /\ StoredIn(turn[t].asstMsg, "assistant", turn[t].reply,
                       turn[t].conv, turn[t].session)

C6_Step ==
  \A t \in Turns :
    (turn[t].threw /\ turn[t].pc # "done" /\ turn'[t].pc = "done") =>
      /\ turn'[t].conv \in DOMAIN convs'
      /\ convs'[turn'[t].conv].lastMessage = turn'[t].reply
      /\ Cardinality({i \in 1..Len(msgs') :
                        /\ msgs'[i].conversationId = turn'[t].conv
                        /\ msgs'[i].role = "assistant"
                        /\ msgs'[i].id > turn'[t].userMsg[1].id}) = 1

C7_Stated ==
  \A t \in Turns :
    (/\ Done(t)
     /\ turn[t].userMsg # <<>>
     /\ ~CredentialUnusable(turn[t].session)) =>
      Success(t)

\* C8: a turn whose message is missing or empty ends at once with status
\* 400 and "Message is required", whoever calls; it creates no
\* conversation and stores no message, and the store has no row it did
\* not have before.
C8_Validation ==
  \A t \in Turns :
    (turn[t].pc # "idle" /\ turn[t].message \in {Null, <<>>}) =>
      /\ Done(t)
      /\ turn[t].status = 400
      /\ turn[t].res = [message |-> "Message is required"]
      /\ turn[t].created = <<>>
      /\ turn[t].userMsg = <<>>
      /\ turn[t].asstMsg = <<>>
      /\ ids = [conv |-> 2, msg |-> 3, item |-> 1]
      /\ DOMAIN convs \subseteq {IdOf(1)}
      /\ Len(msgs) <= 2

\* a signed-in caller's turn with an empty message has been rejected
C8_Witness ==
  \E t \in Turns :
    /\ Done(t) /\ turn[t].session \in Users /\ turn[t].message = <<>>
    /\ turn[t].status = 400

\* C9 as stated: a chat turn or a deletion issued without a session, or
\* with a session that resolves to no user, ends with status 401 whatever
\* its payload, having written nothing.
C9_Stated ==
  /\ \A t \in Turns :
       (turn[t].pc # "idle" /\ turn[t].session \notin Users) =>
         /\ Done(t)
         /\ turn[t].status = 401
         /\ turn[t].created = <<>> /\ turn[t].userMsg = <<>>
  /\ \A d \in Dels :
       (del[d].pc # "idle" /\ del[d].session \notin Users) =>
         /\ del[d].pc = "done"
         /\ del[d].status = 401

\* C10: every stored message belongs to an existing conversation whose
\* owner is the message's user.
C10_Owner ==
  \A i \in 1..Len(msgs) :
    /\ msgs[i].conversationId \in DOMAIN convs
    /\ convs[msgs[i].conversationId].userId = msgs[i].userId

\* both users have messages stored and a deletion has removed a
\* conversation
C10_Witness ==
  /\ \A u \in Users : \E i \in 1..Len(msgs) : msgs[i].userId = u
  /\ \E d \in Dels : del[d].pc = "done" /\ del[d].status = 200

\* ---------------------------------------------------------------------
\* Properties of deletion and of the message listing

Deleted(d) == del[d].pc = "done" /\ del[d].status = 200

\* C11: once a DELETE has answered with success, in every later state no
\* stored message carries the deleted conversation's id, whether or not a
\* turn on that conversation was in flight, and the message listing of
\* that id answers every user with status 200 and no messages.
C11_Deleted ==
  \A d \in Dels :
    Deleted(d) =>
      /\ \A i \in 1..Len(msgs) : msgs[i].conversationId # del[d].conversationId
      /\ \A u \in Users :
           GetMessages(u, del[d].conversationId) =
             [status |-> 200, res |-> [messages |-> <<>>]]

\* a conversation was deleted while a turn on it was in flight: the turn
\* has since had its write rejected
C11_Witness ==
  \E d \in Dels, t \in Turns :
    /\ Deleted(d)
    /\ turn[t].conv = del[d].conversationId
    /\ turn[t].userMsg # <<>>
    /\ Done(t) /\ turn[t].res = StoreRejected

\* the id names no conversation of this signed-in caller
NotOwn(session, conversationId) ==
  /\ session \in Users
  /\ conversationId # Null /\ conversationId # <<>>
  /\ \/ conversationId \notin DOMAIN convs
     \/ convs[conversationId].userId # session

C12_Step ==
  \A d \in DelSlots :
    (/\ del[d].pc = "idle" /\ del'[d].pc # "idle"
     /\ NotOwn(del'[d].session, del'[d].conversationId)) =>
      /\ del'[d].pc = "done"
      /\ del'[d].status = 404
      /\ del'[d].res = [message |-> "Conversation not found"]
      /\ convs' = convs
      /\ msgs' = msgs

C12_Second ==
  \A d, e \in DelSlots :
    (/\ d < e /\ Deleted(d) /\ del[e].pc # "idle"
     /\ del[e].session \in Users
     /\ del[e].conversationId = del[d].conversationId) =>
      del[e].pc = "done" /\ del[e].status = 404

\* C12: a DELETE of a signed-in caller whose id names no conversation, or
\* a conversation of another user, answers at once with status 404 and
\* changes no conversation and no message; a DELETE of an id that an
\* earlier DELETE has removed answers 404.
C12_NotFound == []C12_Second /\ [][C12_Step]_vars

\* a conversation with messages was deleted, and a second DELETE of its
\* id was answered 404 while messages were in the store
C12_Witness ==
  \E d, e \in DelSlots :
    /\ d < e /\ Deleted(d)
    /\ del[e].pc = "done" /\ del[e].status = 404
    /\ del[e].session = del[d].session
    /\ del[e].conversationId = del[d].conversationId
    /\ Len(msgs) > 0

\* the ids a listing may be asked for: those ever assigned and one never
\* assigned
ListedIds == KnownIds

\* C13: in every state the message listing answers a signed-in caller,
\* for any id, with status 200 and a sequence in which each entry is a
\* stored message of the caller in that conversation, each such message
\* occurs, and creation order ascends; for a conversation of another user
\* the answer is the one for an id that names nothing, no messages.
C13_Listing ==
  \A u \in Users, c \in ListedIds :
    LET r == GetMessages(u, c)
        listed == r.res.messages
    IN /\ r.status = 200
       /\ \A k \in 1..Len(listed) :
            /\ listed[k].userId = u
            /\ \E i \in 1..Len(msgs) :
                 /\ msgs[i].id = listed[k].id
                 /\ msgs[i].userId = u
                 /\ msgs[i].conversationId = c
                 /\ msgs[i].role = listed[k].role
                 /\ msgs[i].content = listed[k].content
       /\ \A i \in 1..Len(msgs) :
            (msgs[i].userId = u /\ msgs[i].conversationId = c) =>
              \E k \in 1..Len(listed) : listed[k].id = msgs[i].id
       /\ \A k \in 1..(Len(listed) - 1) : listed[k].id < listed[k + 1].id
       /\ (c \in DOMAIN convs /\ convs[c].userId # u) =>
            /\ r = GetMessages(u, IdOf(0))
            /\ listed = <<>>

\* a conversation of u1 lists its messages to u1 and nothing to u2, who has
\* messages of their own
C13_Witness ==
  \E c \in DOMAIN convs :
    /\ convs[c].userId = "u1"
    /\ Len(GetMessages("u1", c).res.messages) >= 3
    /\ GetMessages("u2", c).res.messages = <<>>
    /\ \E i \in 1..Len(msgs) : msgs[i].userId = "u2"

\* ---------------------------------------------------------------------
\* Properties of the completion call's messages

Min(a, b) == IF a < b THEN a ELSE b

\* the last min(10, n) of a conversation's n stored messages, oldest first,
\* as role and content
LastTen(conversationId) ==
  LET all == MessagesOf(msgs, conversationId)
      n == Len(all)
      k == Min(10, n)
  IN [i \in 1..k |-> [role |-> all[n - k + i].role,
                      content |-> all[n - k + i].content]]

C14_State ==
  \A t \in Turns :
    turn[t].pc \in {"appendAssistant", "update"} =>
      LET sent == turn[t].sent
      IN /\ Len(sent) >= 2 /\ Len(sent) <= 12
         /\ sent[1].role = "system"
         /\ \A i \in 2..Len(sent) : sent[i].role # "system"
         /\ SubSeq(sent, 2, Len(sent) - 1) = turn[t].history
         /\ sent[Len(sent)] = [role |-> "user", content |-> turn[t].message]

C14_Step ==
  \A t \in Turns :
    (turn[t].pc = "history" /\ turn'[t].pc = "complete") =>
      turn'[t].history = LastTen(turn[t].conv)

\* C14: the history a turn loads is the last min(10, n) of the n messages
\* stored in its conversation at the load, oldest first; the messages
\* given to the completion call are one system message, that history and
\* the turn's user message, in this order, twelve entries at most.
C14_Messages == []C14_State /\ [][C14_Step]_vars

\* a completion call was given twelve messages, the conversation holding
\* more than ten
C14_Witness ==
  \E t \in Turns :
    /\ turn[t].pc = "appendAssistant"
    /\ Len(turn[t].sent) = 12
    /\ Len(MessagesOf(msgs, turn[t].conv)) > 10

\* ---------------------------------------------------------------------
\* Properties of the profile upsert

\* the step is a PUT
PutStep == put'.n = put.n + 1

\* C15: in every state each stored profile's hasApiKey is true exactly
\* when its openaiApiKeyHash is not empty.
C15_Flag ==
  \A u \in DOMAIN profiles :
    profiles[u].hasApiKey <=> (profiles[u].openaiApiKeyHash # <<>>)

\* a profile that holds a key has since been updated without one
C15_Witness ==
  /\ put.n = 2 /\ put.status = 200
  /\ (put.body.apiKey = Null \/ put.body.apiKey = <<>>)
  /\ put.session \in DOMAIN profiles
  /\ profiles[put.session].hasApiKey
  /\ profiles[put.session].openaiApiKeyHash # <<>>

\* the credential has the shape of a key
LooksValid(k) ==
  /\ Len(k) >= 20
  /\ k[1] = "s" /\ k[2] = "k" /\ k[3] = "-"

\* C16: a PUT whose dietaryPreferences is not an array, or whose key fails
\* the shape check, answers 400 without calling encryptApiKey; a PUT that
\* answers 'Failed to encrypt API key' answers 500; and every PUT that
\* does not answer 200 leaves the stored profiles as they were.
C16_Rejected ==
  [][PutStep =>
       /\ (\/ put'.body.dietaryPreferences = Null
           \/ put'.body.dietaryPreferences = AString) =>
            put'.status = 400 /\ ~put'.encrypted
       /\ (/\ put'.body.apiKey # Null
           /\ put'.body.apiKey # <<>>
           /\ ~LooksValid(put'.body.apiKey)) =>
            put'.status = 400 /\ ~put'.encrypted
       /\ put'.res.message = "Failed to encrypt API key" =>
            put'.status = 500 /\ put'.encrypted
       /\ put'.status # 200 => profiles' = profiles]_vars

\* a profile that holds a key was sent another one and the cipher threw
C16_Witness ==
  /\ put.n = 2
  /\ put.res.message = "Failed to encrypt API key"
  /\ put.session \in DOMAIN profiles
  /\ profiles[put.session].hasApiKey

\* C17 as stated: a PUT of a user who has a profile leaves each stored
\* field the body omits as it was: healthGoal, dietaryPreferences,
\* fitnessLevel, and for an omitted apiKey the ciphertext and its flag.
C17_Stated ==
  [][(PutStep /\ put'.session \in DOMAIN profiles) =>
       LET old == profiles[put'.session]
           new == profiles'[put'.session]
       IN /\ put'.body.healthGoal = Null => new.healthGoal = old.healthGoal
          /\ put'.body.dietaryPreferences = Null =>
               new.dietaryPreferences = old.dietaryPreferences
          /\ put'.body.fitnessLevel = Null => new.fitnessLevel = old.fitnessLevel
          /\ put'.body.apiKey = Null =>
               /\ new.openaiApiKeyHash = old.openaiApiKeyHash
               /\ new.hasApiKey = old.hasApiKey]_vars

\* ---------------------------------------------------------------------
\* ids the page has given to provisional conversations so far
ProvisionalIds == {ProvisionalId(n) : n \in 1..(calls.now - 1)}

\* the response of a turn sent for a provisional conversation arrives and
\* carries the id of the server's conversation
Reconciles ==
  /\ calls.send.pc = "sent"
  /\ calls'.send.pc = "idle"
  /\ StartsWith(calls.send.selectedConversation, ConvPrefix)
  /\ IsOk(turn[calls.send.t].status)
  /\ ~Falsy(turn[calls.send.t].res.conversationId)

Shown(id) == id \in IdsOf(ui.conversations) \/ id = ui.selectedConversation

\* C18: in every state the page can reach, no id assigned by the server
\* occurs at two positions of the conversation list; the step that
\* reconciles a provisional id leaves it neither in the list nor selected,
\* and an id that has left the page this way is never shown again.
C18_Unique ==
  \A i, j \in 1..Len(ui.conversations) :
    (i # j /\ ~StartsWith(ui.conversations[i].id, ConvPrefix))
      => ui.conversations[i].id # ui.conversations[j].id

C18_Step ==
  /\ Reconciles =>
       /\ calls.send.selectedConversation \notin IdsOf(ui'.conversations)
       /\ calls.send.selectedConversation # ui'.selectedConversation
  /\ \A id \in ProvisionalIds :
       ~Shown(id) => (id \notin IdsOf(ui'.conversations) /\ id # ui'.selectedConversation)

C18_Stated == []C18_Unique /\ [][C18_Step]_vars

Provisional(conversations) ==
  LET local(c) == StartsWith(c.id, ConvPrefix)
  IN SelectSeq(conversations, local)

\* the response of a listing is merged into the list
Merges ==
  /\ calls.fetch.pc = "answered"
  /\ calls'.fetch.pc = "idle"
  /\ IsOk(calls.fetch.status)

\* C20: when fetchConversations completes, the list is the provisional
\* entries of the previous list in their previous order followed by the
\* server's list in the server's order: no provisional entry is lost, and
\* every entry with a server id is one the server sent.
C20_Merged ==
  [][Merges =>
       LET data == calls.fetch.res
           prev == ui.conversations
           next == ui'.conversations
       IN /\ next = Provisional(prev) \o data.conversations
          /\ \A i \in 1..Len(prev) :
               StartsWith(prev[i].id, ConvPrefix)
                 => \E j \in 1..Len(next) : next[j] = prev[i]
          /\ \A j \in 1..Len(next) :
               ~StartsWith(next[j].id, ConvPrefix)
                 => \E k \in 1..Len(data.conversations) :
                      next[j] = data.conversations[k]]_vars

\* a listing has been merged while the first turn of a provisional
\* conversation waits for its response: the provisional entry is kept, in
\* front of the two conversations the server listed
C20_Witness ==
  /\ calls.fetch.pc = "idle"
  /\ calls.send.pc = "sent"
  /\ Len(ui.conversations) = 3
  /\ ui.conversations[1].id = calls.send.selectedConversation
  /\ StartsWith(ui.conversations[1].id, ConvPrefix)
  /\ ui.conversations[2].id = IdOf(2)
  /\ ui.conversations[3].id = IdOf(1)

\* ---------------------------------------------------------------------
\* a submit is accepted: the request of a turn leaves the page
Submits ==
  /\ calls'.send.pc = "sent"
  /\ calls'.now # calls.now
  /\ calls'.creates = calls.creates

\* the page handles the response of the turn that was outstanding
Completes == calls.send.pc = "sent" /\ calls'.send.pc = "idle"

\* C21: isLoading is true exactly while a turn request is outstanding; a
\* submit is accepted only when isLoading is false and no turn request is
\* outstanding; and the step that handles the response of a turn, ok or
\* not, leaves isLoading false.
C21_State == ui.isLoading <=> calls.send.pc = "sent"

C21_Step ==
  /\ Submits => (~ui.isLoading /\ calls.send.pc = "idle" /\ ui'.isLoading)
  /\ Completes => ~ui'.isLoading

C21_Loading == []C21_State /\ [][C21_Step]_vars

\* the first turn has failed, isLoading has returned to false and the
\* second submit has been accepted
C21_Witness ==
  /\ turn[1].pc = "done"
  /\ ~IsOk(turn[1].status)
  /\ calls.send.pc = "sent"
  /\ calls.send.t = 2
  /\ ui.isLoading

\* ---------------------------------------------------------------------
\* the stored pantry items of an owner
ItemsOf(owner) ==
  LET own(i) == i.userId = owner
  IN SelectSeq(pantry, own)

Listed(owner) == PantryList(owner).res.items

\* C22: in every state reached by pantry creates, updates and deletes of
\* any users, the list of each owner holds exactly the owner's stored
\* items, each once, among them every item the owner created and did not
\* delete, and the statistics of the owner agree with the list: totalItems
\* is its length, the mapping has exactly the categories that occur in it,
\* and each category's count is the number of listed items of the category.
C22_Stated ==
  \A owner \in Users :
    LET list == Listed(owner)
        stats == PantryStats(owner).res
        of(category) == {k \in 1..Len(list) : list[k].category = category}
    IN /\ Len(list) = Len(ItemsOf(owner))
       /\ {list[k].id : k \in 1..Len(list)}
            = {ItemsOf(owner)[k].id : k \in 1..Len(ItemsOf(owner))}
       /\ {list[k].id : k \in 1..Len(list)}
            = {l.id : l \in {x \in pan.live : x.owner = owner}}
       /\ stats.totalItems = Len(list)
       /\ DOMAIN stats.categoryCounts = {list[k].category : k \in 1..Len(list)}
       /\ \A category \in DOMAIN stats.categoryCounts :
            stats.categoryCounts[category] = Num(Cardinality(of(category)))

\* ---------------------------------------------------------------------
\* the request just answered was an update or a delete of a signed-in
\* caller, complete in its fields, for an id that is not an item of the
\* caller
MissesItem ==
  /\ pan'.n = pan.n + 1
  /\ pan'.op \in {"PUT", "DELETE"}
  /\ getAuthenticatedUser(pan'.session) # NoUser
  /\ ~Falsy(pan'.body.id)
  /\ pan'.op = "PUT" => (~Falsy(pan'.body.itemName) /\ ~Falsy(pan'.body.category))
  /\ \A k \in 1..Len(pantry) :
       ~(pantry[k].id = pan'.body.id /\ pantry[k].userId = pan'.session)

\* C23: a pantry update or delete for an id that does not exist or is
\* another user's item is answered 404 'Item not found' and leaves every
\* stored pantry item as it was.
C23_NotFound ==
  [][MissesItem =>
       /\ pan'.status = 404
       /\ pan'.res = [message |-> "Item not found"]
       /\ pantry' = pantry]_vars

\* an update of another user's item has been answered 404 and the item is
\* still what its owner stored
C23_Witness ==
  /\ pan.op = "PUT"
  /\ pan.status = 404
  /\ \E k \in 1..Len(pantry) :
       /\ pantry[k].id = pan.body.id
       /\ pantry[k].userId # pan.session
       /\ pan.session \in Users
       /\ pantry[k].category # pan.body.category

\* ---------------------------------------------------------------------
\* C24: what decryptApiKey returns for the encryption of a secret is the
\* secret, and decryptApiKey fails on every stored form that does not
\* split at ':' into exactly two fields.
C24_Stated ==
  /\ vault.pc = "returned" => (vault.result.ok /\ vault.result.text = vault.text)
  /\ (vault.pc = "read" /\ Len(Split(vault.stored, Sep)) # 2) => ~vault.result.ok

\* ---------------------------------------------------------------------
\* the title the claim gives a message
StatedTitle(message) ==
  LET words == Join(Take(Split(Trim(message), " "), 4), " ")
  IN IF words = <<>> THEN NewConversationTitle
     ELSE IF Len(words) > 30 THEN Take(words, 30) \o <<".", ".", ".">>
     ELSE words

\* C25: the title of a conversation that a turn has created is the first
\* four space-separated words of the trimmed message joined by single
\* spaces, cut to 30 characters and '...' when longer, 'New Conversation'
\* when empty; it is not empty and has at most 33 characters.
C25_Stated ==
  \A t \in Turns :
    (turn[t].created # <<>> /\ turn[t].conv \in DOMAIN convs) =>
      LET title == convs[turn[t].conv].title
      IN /\ title = StatedTitle(turn[t].message)
         /\ title # <<>>
         /\ Len(title) <= 33

\* C25 as it holds: the title is the stated one with the white space at
\* its end removed (split(' ') gives an empty word between two adjacent
\* spaces, and a title that ends with such words is trimmed); it is not
\* empty and has at most 33 characters.
C25_Title ==
  \A t \in Turns :
    (turn[t].created # <<>> /\ turn[t].conv \in DOMAIN convs) =>
      LET title == convs[turn[t].conv].title
      IN /\ title = TrimEnd(StatedTitle(turn[t].message))
         /\ title # <<>>
         /\ Len(title) <= 33

\* turns have created a conversation whose title lost the empty fourth
\* word and one whose title was cut
C25_Witness ==
  /\ \E t \in Turns :
       /\ turn[t].created # <<>>
       /\ turn[t].message = <<"a", " ", "b", " ", "c", " ", " ", "d">>
       /\ convs[turn[t].conv].title = <<"a", " ", "b", " ", "c">>
  /\ \E t \in Turns :
       /\ turn[t].created # <<>>
       /\ Len(turn[t].message) > 30
       /\ Len(convs[turn[t].conv].title) = 33

\* ---------------------------------------------------------------------
NoItemsMarker == [header |-> "PANTRY ITEMS", items |-> <<>>]

Prompt(t) == turn[t].sent[1].content

C26_StatedState ==
  \A t \in Turns :
    /\ (/\ Done(t)
        /\ turn[t].user # NoUser
        /\ \/ turn[t].user \notin DOMAIN profiles
           \/ ItemsOf(turn[t].user) = <<>>)
         => turn[t].called
    /\ turn[t].sent # <<>> =>
         /\ (turn[t].user \notin DOMAIN profiles \/ turn[t].readThrew)
              => Prompt(t).profile = <<>>
         /\ (ItemsOf(turn[t].user) = <<>> \/ turn[t].readThrew)
              => Prompt(t).pantry = NoItemsMarker

C26_StatedStep ==
  \A t \in Turns :
    (turn[t].pc = "complete" /\ turn'[t].pc # "complete" /\ turn[t].readThrew)
      => turn'[t].called

\* C26: a turn of a caller whose profile is absent, whose inventory is
\* empty or whose context read threw has, once it is done, made the
\* completion call; the prompt it sent has no profile fact when the
\* profile was absent or the read threw, and the no-items marker when the
\* inventory was empty or the read threw.
C26_Stated == []C26_StatedState /\ [][C26_StatedStep]_vars

\* C26 as it holds: context assembly ends no turn, and a turn past the
\* credential check whose inventory is empty or whose context read threw
\* makes the completion call; the prompt has no profile fact when the read
\* threw or the profile holds none, and the no-items marker when the
\* inventory was empty or the read threw.  A caller without a profile row
\* is answered 400 by the credential check and makes no completion call.
C26_State ==
  \A t \in Turns :
    /\ turn[t].sent # <<>> =>
         /\ (turn[t].readThrew \/ profiles[turn[t].user] = KeyProfile)
              => Prompt(t).profile = <<>>
         /\ (ItemsOf(turn[t].user) = <<>> \/ turn[t].readThrew)
              => Prompt(t).pantry = NoItemsMarker
    /\ (Done(t) /\ turn[t].user # NoUser /\ turn[t].user \notin DOMAIN profiles)
         => (turn[t].status = 400 /\ ~turn[t].called)

C26_Step ==
  \A t \in Turns :
    /\ (turn[t].pc = "history" /\ turn'[t] # turn[t]) => turn'[t].pc = "complete"
    /\ (/\ turn[t].pc = "complete"
        /\ turn'[t].pc # "complete"
        /\ (ItemsOf(turn[t].user) = <<>> \/ turn[t].readThrew))
         => turn'[t].called

C26_Context == []C26_State /\ [][C26_Step]_vars

\* the context read of a caller with every profile fact and an item threw,
\* and the completion was called with a prompt without facts that has the
\* no-items marker
C26_Witness ==
  \E t \in Turns :
    /\ turn[t].readThrew
    /\ turn[t].called
    /\ turn[t].sent # <<>>
    /\ profiles[turn[t].user] = FullProfile
    /\ ItemsOf(turn[t].user) # <<>>
    /\ Prompt(t).profile = <<>>
    /\ Prompt(t).pantry = NoItemsMarker

\* ---------------------------------------------------------------------
\* C27: lastMessage against the most recently created message

\* the most recently created message of a conversation (msgs is kept in
\* creation order)
LatestMessage(conversationId) ==
  LET all == MessagesOf(msgs, conversationId)
  IN all[Len(all)]

\* C27 as stated: in every state a reader of the store can observe, the
\* states between the steps of a turn and those of concurrent turns on one
\* conversation included, a conversation that has messages has the content
\* of its most recently created message as its lastMessage.
C27_Stated ==
  \A c \in DOMAIN convs :
    MessagesOf(msgs, c) # <<>> =>
      convs[c].lastMessage = LatestMessage(c).content

\* every turn has answered with success and a conversation's lastMessage
\* is still not the content of its latest message
C27_StaleAtRest ==
  /\ \A t \in Turns : turn[t].pc = "done" /\ IsOk(turn[t].status)
  /\ ~C27_Stated

\* ---------------------------------------------------------------------
\* C28: the turn's user message in the messages of the completion call

\* the rows behind RecentMessages: the same query before its select
RecentRows(conversationId, userId) ==
  LET own(m) == m.conversationId = conversationId /\ m.userId = userId
  IN Take(Reverse(SelectSeq(msgs, own)), HistoryWindow)

\* the entries of a message list that are the user message of the text
UserEntries(sent, message) ==
  {i \in 1..Len(sent) : sent[i] = [role |-> "user", content |-> message]}

C28_State ==
  \A t \in Turns :
    turn[t].pc \in {"appendAssistant", "update"} =>
      LET sent == turn[t].sent
      IN /\ sent[Len(sent)] = [role |-> "user", content |-> turn[t].message]
         /\ SubSeq(sent, 2, Len(sent) - 1) = turn[t].history

C28_Step ==
  \A t \in Turns :
    (turn[t].pc = "history" /\ turn'[t].pc = "complete") =>
      LET rows == RecentRows(turn[t].conv, turn[t].user)
      IN /\ turn'[t].history =
              Reverse([i \in 1..Len(rows) |->
                         [role |-> rows[i].role, content |-> rows[i].content]])
         /\ \A i \in 1..Len(rows) : rows[i] # turn[t].userMsg[1]

\* C28 as stated: the messages a turn gives the completion call end with
\* the turn's user message, and the history window between the system
\* message and that entry, loaded after the user message was persisted,
\* does not hold the row of that message, so that the message occurs once.
C28_Stated == []C28_State /\ [][C28_Step]_vars

\* a turn that created its conversation, the only turn in it, gave the
\* completion call its user message twice
C28_Twice ==
  \E t \in Turns :
    /\ turn[t].created # <<>>
    /\ turn[t].pc \in {"appendAssistant", "update"}
    /\ Len(MessagesOf(msgs, turn[t].conv)) = 1
    /\ Cardinality(UserEntries(turn[t].sent, turn[t].message)) = 2

\* ---------------------------------------------------------------------
\* C29: the displayed messages against the selected conversation

\* a displayed message that the server stored: a fetched message carries
\* userId, the reply of a turn carries conversationId; the provisional
\* message of sendMessage carries neither
Stored(m) == "userId" \in DOMAIN m \/ "conversationId" \in DOMAIN m

\* the conversation the server stored a displayed message in
ConversationOf(m) ==
  LET row == CHOOSE r \in {msgs[k] : k \in 1..Len(msgs)} : r.id = m.id
  IN row.conversationId

\* C29 as stated: every displayed message that the server stored is a
\* message of the currently selected conversation: the reply of a turn is
\* not appended under another selection, and the fetched messages of a
\* conversation selected before do not replace those of the current one.
C29_Stated ==
  \A i \in 1..Len(ui.messages) :
    Stored(ui.messages[i]) => ConversationOf(ui.messages[i]) = ui.selectedConversation

\* the reply of a turn is displayed under a selection that is not its
\* conversation, with no turn and no fetch in flight
C29_ReplyElsewhere ==
  /\ calls.send.pc = "idle"
  /\ calls.loads = <<>>
  /\ \E i \in 1..Len(ui.messages) :
       /\ "conversationId" \in DOMAIN ui.messages[i]
       /\ ui.messages[i].conversationId # ui.selectedConversation

\* fetched messages of a conversation are displayed under a selection that
\* is not that conversation, with no turn and no fetch in flight
C29_StaleFetch ==
  /\ calls.send.pc = "idle"
  /\ calls.loads = <<>>
  /\ \E i \in 1..Len(ui.messages) :
       /\ "userId" \in DOMAIN ui.messages[i]
       /\ ConversationOf(ui.messages[i]) # ui.selectedConversation

\* ---------------------------------------------------------------------
\* C30: provisional conversations against the conversations of the server

\* the turns that were sent without a conversation id, as sendMessage
\* sends them from a provisional conversation and from no other, and for
\* which the server created a conversation
CreatedForProvisional ==
  {t \in Turns : turn[t].conversationId = Null /\ turn[t].created # <<>>}

\* C30 as stated: each provisional conversation of the client gives rise
\* to one server conversation at most, so that the conversations the
\* server created for turns sent from provisional conversations are no
\* more than the provisional conversations the client has created.
C30_Stated == Cardinality(CreatedForProvisional) <= calls.creates

\* the client has created one provisional conversation, its first turn
\* ended in an error after the server had created a conversation, and the
\* turn sent again from it has made the server create a second one
C30_Twice ==
  /\ calls.creates = 1
  /\ \E s, t \in Turns :
       /\ s # t
       /\ turn[s].pc = "done" /\ ~IsOk(turn[s].status)
       /\ turn[s].created # <<>> /\ turn[t].created # <<>>
       /\ turn[s].created # turn[t].created
       /\ turn[s].conversationId = Null /\ turn[t].conversationId = Null
       /\ turn[s].created[1].id \in DOMAIN convs
       /\ turn[t].created[1].id \in DOMAIN convs

====
